---- MODULE Spec2Model ----
(***************************************************************************)
(* Model of the Femap type-library generators:                             *)
(*   generate_stubs_tlb.py      (resolver, interface extractor, stubs)     *)
(*   generate_constants_tlb.py  (alias table, two-tier constants emitter)  *)
(*   femap_path_utils.py        (type-library path resolution)             *)
(*                                                                         *)
(* Python strings are sequences of one-character strings, so that prefix   *)
(* tests, splitting and concatenation are computed as the code computes    *)
(* them.  Python values whose runtime type the code inspects (None, int,   *)
(* tuple) are tagged records.                                              *)
(***************************************************************************)
EXTENDS Integers, Sequences, FiniteSets, TLC

VARIABLES
    pc,         \* position of the run being modelled
    typedesc,   \* resolver: the descriptor handed to resolve_type
    tinfo,      \* resolver: the type info whose references are followed
    resolved,   \* resolver: the value resolve_type returned
    const_list, \* grouping: the ConstantInfo list handed to the class generator
    prefix,     \* grouping: the prefix the generator is told to strip
    body,       \* grouping: the lines the generator returned
    typelib,    \* stubs: the entries of the loaded type library
    enums,      \* stubs: main's enums dict after the first pass
    interfaces, \* stubs: main's interfaces list after the second pass
    stub_lines, \* stubs: the lines generate_stub_file wrote
    stub_again, \* stubs: the lines a second run over the same library wrote
    tlb_constants,   \* constants: the dict parse_constants_from_tlb returned
    tier1_processed, \* constants: generate_constants_file's list of emitted rules
    tier1_skipped,   \* constants: generate_constants_file's list of skipped rules
    const_lines,     \* constants: the lines generate_constants_file wrote
    const_again,     \* constants: the lines a second run over the same library wrote
    type_tree,  \* translation: the composite type handed to translate_type
    translated, \* translation: the string translate_type returned
    host,       \* path: argument, environment, files and user of one call
    cache_file, \* path: the content of the cache file
    tlb_path,   \* path: the value get_tlb_path returned
    prompted,   \* path: whether the call opened the file dialog
    earlier     \* path: what the call before this one returned and left

resolverVars == <<typedesc, tinfo, resolved>>
groupVars == <<const_list, prefix, body>>
stubVars == <<typelib, enums, interfaces, stub_lines, stub_again>>
constVars == <<tlb_constants, tier1_processed, tier1_skipped, const_lines,
              const_again>>
translateVars == <<type_tree, translated>>
pathVars == <<host, cache_file, tlb_path, prompted, earlier>>
vars == <<pc, typedesc, tinfo, resolved, const_list, prefix, body,
          typelib, enums, interfaces, stub_lines, stub_again,
          tlb_constants, tier1_processed, tier1_skipped, const_lines,
          const_again, type_tree, translated, host, cache_file, tlb_path,
          prompted, earlier>>

---------------------------------------------------------------------------
(* Bounds of the model *)

MaxArity == 2    \* components of the outer composite type handed to translate_type

\* nesting depth of pointer/array wrappers in enumerated descriptors
MaxDepth == 2
\* integer type codes -1 .. MaxCode are enumerated
MaxCode == 30
\* parameter flag words 0 .. MaxFlags are enumerated
MaxFlags == 3
\* reference handles 1 .. MaxHref are enumerated
MaxHref == 2
\* an enumerated constant list has at most MaxMembers members, with values
\* 1 .. MaxMembers
MaxMembers == 3
\* an enumerated method has at most MaxArgs parameters
MaxArgs == 2
\* an enumerated indexed accessor has at most MaxIndex index parameters
MaxIndex == 2

---------------------------------------------------------------------------
(* String literals *)

S_Any == <<"A","n","y">>
S_int == <<"i","n","t">>
S_float == <<"f","l","o","a","t">>
S_str == <<"s","t","r">>
S_bool == <<"b","o","o","l">>
S_None == <<"N","o","n","e">>
S_TupleOpen == <<"T","u","p","l","e","[">>
S_Ellipsis == <<","," ",".",".",".","]">>
S_CommaSp == <<","," ">>
S_Close == <<"]">>
S_zColor == <<"z","C","o","l","o","r">>
S_INode == <<"I","N","o","d","e">>
S_A_FOO == <<"A","_","F","O","O">>
S_A_BAR == <<"A","_","B","A","R">>
S_A_1 == <<"A","_","1">>
S_A_ == <<"A","_">>
S_B_X == <<"B","_","X">>
S_FOO == <<"F","O","O">>
S_BAR == <<"B","A","R">>
S__1 == <<"_","1">>
S_Indent4 == <<" "," "," "," ">>
S_Eq == <<" ","="," ">>
S_zEnum == <<"z","E","n","u","m">>
S_zReturnCode == <<"z","R","e","t","u","r","n","C","o","d","e">>
S_ReturnCode == <<"R","e","t","u","r","n","C","o","d","e">>
S_FE_ == <<"F","E","_">>
S_zCSysType == <<"z","C","S","y","s","T","y","p","e">>
S_CSys == <<"C","S","y","s">>
S_FCS_ == <<"F","C","S","_">>
S_zGroupDefinitionType == <<"z","G","r","o","u","p","D","e","f","i","n","i","t","i","o","n","T","y","p","e">>
S_GroupDef == <<"G","r","o","u","p","D","e","f">>
S_FGD_ == <<"F","G","D","_">>
S_Color == <<"C","o","l","o","r">>
S_FCL_ == <<"F","C","L","_">>
S_zColor_FPF_ == <<"z","C","o","l","o","r",":","F","P","F","_">>
S_BrushPattern == <<"B","r","u","s","h","P","a","t","t","e","r","n">>
S_FPF_ == <<"F","P","F","_">>
S_zColor_FPL_ == <<"z","C","o","l","o","r",":","F","P","L","_">>
S_PenLineStyle == <<"P","e","n","L","i","n","e","S","t","y","l","e">>
S_FPL_ == <<"F","P","L","_">>
S_Bar == <<" ","|"," ">>
\* '# Auto-generated from Femap type library (.tlb)'
S_StubH1 == <<"#"," ","A","u","t","o","-","g","e","n","e","r","a","t","e","d"," ","f","r","o","m"," ","F","e","m","a","p"," ","t","y","p","e"," ","l","i","b","r","a","r","y"," ","(",".","t","l","b",")">>
\* '# DO NOT EDIT - regenerate with generate_stubs_tlb.py'
S_StubH2 == <<"#"," ","D","O"," ","N","O","T"," ","E","D","I","T"," ","-"," ","r","e","g","e","n","e","r","a","t","e"," ","w","i","t","h"," ","g","e","n","e","r","a","t","e","_","s","t","u","b","s","_","t","l","b",".","p","y">>
S_StubH3 == <<"#">>
\* '# This file provides authoritative type information extracted directly'
S_StubH4 == <<"#"," ","T","h","i","s"," ","f","i","l","e"," ","p","r","o","v","i","d","e","s"," ","a","u","t","h","o","r","i","t","a","t","i","v","e"," ","t","y","p","e"," ","i","n","f","o","r","m","a","t","i","o","n"," ","e","x","t","r","a","c","t","e","d"," ","d","i","r","e","c","t","l","y">>
\* '# from the COM type library, including interface types (IMatl, INode)'
S_StubH5 == <<"#"," ","f","r","o","m"," ","t","h","e"," ","C","O","M"," ","t","y","p","e"," ","l","i","b","r","a","r","y",","," ","i","n","c","l","u","d","i","n","g"," ","i","n","t","e","r","f","a","c","e"," ","t","y","p","e","s"," ","(","I","M","a","t","l",","," ","I","N","o","d","e",")">>
\* '# and enum types linked to femap_constants.py aliases.'
S_StubH6 == <<"#"," ","a","n","d"," ","e","n","u","m"," ","t","y","p","e","s"," ","l","i","n","k","e","d"," ","t","o"," ","f","e","m","a","p","_","c","o","n","s","t","a","n","t","s",".","p","y"," ","a","l","i","a","s","e","s",".">>
\* 'from typing import Any, Tuple, Optional, overload'
S_StubH8 == <<"f","r","o","m"," ","t","y","p","i","n","g"," ","i","m","p","o","r","t"," ","A","n","y",","," ","T","u","p","l","e",","," ","O","p","t","i","o","n","a","l",","," ","o","v","e","r","l","o","a","d">>
\* 'from win32com.client import DispatchBaseClass'
S_StubH9 == <<"f","r","o","m"," ","w","i","n","3","2","c","o","m",".","c","l","i","e","n","t"," ","i","m","p","o","r","t"," ","D","i","s","p","a","t","c","h","B","a","s","e","C","l","a","s","s">>
\* '# Enum types (original .tlb names as aliases to int)'
S_EnumTypesComment == <<"#"," ","E","n","u","m"," ","t","y","p","e","s"," ","(","o","r","i","g","i","n","a","l"," ",".","t","l","b"," ","n","a","m","e","s"," ","a","s"," ","a","l","i","a","s","e","s"," ","t","o"," ","i","n","t",")">>
S_EqInt == <<" ","="," ","i","n","t">>
\* 'class constants:'
S_ClassConstants == <<"c","l","a","s","s"," ","c","o","n","s","t","a","n","t","s",":">>
\* '    """Femap constants from type library."""'
S_ConstantsDoc == <<" "," "," "," ","\"","\"","\"","F","e","m","a","p"," ","c","o","n","s","t","a","n","t","s"," ","f","r","o","m"," ","t","y","p","e"," ","l","i","b","r","a","r","y",".","\"","\"","\"">>
S_IndentHash == <<" "," "," "," ","#"," ">>
S_ColonInt == <<":"," ","i","n","t">>
S_Class == <<"c","l","a","s","s"," ">>
\* '(DispatchBaseClass):'
S_DispatchBase == <<"(","D","i","s","p","a","t","c","h","B","a","s","e","C","l","a","s","s",")",":">>
\* '    @property'
S_AtProperty == <<" "," "," "," ","@","p","r","o","p","e","r","t","y">>
S_Def == <<" "," "," "," ","d","e","f"," ">>
S_SelfArrow == <<"(","s","e","l","f",")"," ","-",">"," ">>
S_Dots == <<":"," ",".",".",".">>
S_IndentAt == <<" "," "," "," ","@">>
S_DotSetter == <<".","s","e","t","t","e","r">>
\* '(self, value: '
S_SelfValue == <<"(","s","e","l","f",","," ","v","a","l","u","e",":"," ">>
\* ') -> None: ...'
S_CloseNone == <<")"," ","-",">"," ","N","o","n","e",":"," ",".",".",".">>
S_self == <<"s","e","l","f">>
S_ColonSp == <<":"," ">>
S_EqDots == <<" ","="," ",".",".",".">>
S_OpenParen == <<"(">>
S_CloseArrow == <<")"," ","-",">"," ">>
S_IndentDots == <<" "," "," "," ",".",".",".">>
\* 'from femap_constants import '
S_ImportFrom == <<"f","r","o","m"," ","f","e","m","a","p","_","c","o","n","s","t","a","n","t","s"," ","i","m","p","o","r","t"," ">>
S_type == <<"t","y","p","e">>
S_id == <<"i","d">>
S_list == <<"l","i","s","t">>
S_set == <<"s","e","t">>
S_from == <<"f","r","o","m">>
S_import == <<"i","m","p","o","r","t">>
S_class == <<"c","l","a","s","s">>
S_in == <<"i","n">>
S_is == <<"i","s">>
S_not == <<"n","o","t">>
S_and == <<"a","n","d">>
S_or == <<"o","r">>
S_FCL_A == <<"F","C","L","_","A">>
S_FPF_B == <<"F","P","F","_","B">>
S_FE_OK == <<"F","E","_","O","K">>
S_Item == <<"I","t","e","m">>
S_Move == <<"M","o","v","e">>
S_Visible == <<"V","i","s","i","b","l","e">>
S_x == <<"x">>
S_id_ == <<"i","d","_">>
S_App == <<"A","p","p">>
S_SetItem == <<"S","e","t","I","t","e","m">>
S_Underscore == <<"_">>
S_arg == <<"a","r","g">>
S_Set == <<"S","e","t">>
S_Minus == <<"-">>
S_FPL_C == <<"F","P","L","_","C">>
S_FE_FAIL == <<"F","E","_","F","A","I","L">>
S_FGD_ELEM_A == <<"F","G","D","_","E","L","E","M","_","A">>
S_FGD_NODE_B == <<"F","G","D","_","N","O","D","E","_","B">>
S_FGD_ALL == <<"F","G","D","_","A","L","L">>
S_FGD_ELEM_2D == <<"F","G","D","_","E","L","E","M","_","2","D">>
S_PLAIN == <<"P","L","A","I","N">>
S_CliPath == <<"c","l","i",".","t","l","b">>
S_EnvPath == <<"e","n","v",".","t","l","b">>
S_OldPath == <<"o","l","d",".","t","l","b">>
S_NewPath == <<"n","e","w",".","t","l","b">>
S_Femap21 == <<"F","e","m","a","p"," ","2","1">>
S_Femap22 == <<"F","e","m","a","p"," ","2","2">>
S_Femap86 == <<"F","e","m","a","p"," ","8","6">>
S_SlashFemapTlb == <<"\\","f","e","m","a","p",".","t","l","b">>
S_ThreeDots == <<".",".",".">>
S_ICSys == <<"I","C","S","y","s">>
S_zAux == <<"z","A","u","x">>
S_C_Y == <<"C","_","Y">>
S_C_X == <<"C","_","X">>
S_FGD_ELEM_B == <<"F","G","D","_","E","L","E","M","_","B">>
S_FGD_NONE == <<"F","G","D","_","N","O","N","E">>
S_FGD_2D == <<"F","G","D","_","2","D">>
S_FE_ERR == <<"F","E","_","E","R","R">>
S_FE_BAD == <<"F","E","_","B","A","D">>
S_FE_FLT == <<"F","E","_","F","L","T">>
S_Broken == <<"B","r","o","k","e","n">>
S_ConstH1 == <<"\"","\"","\"">>
\* 'femap_constants.py - Type-safe constant aliases for Femap API'
S_ConstH2 == <<"f","e","m","a","p","_","c","o","n","s","t","a","n","t","s",".","p","y"," ","-"," ","T","y","p","e","-","s","a","f","e"," ","c","o","n","s","t","a","n","t"," ","a","l","i","a","s","e","s"," ","f","o","r"," ","F","e","m","a","p"," ","A","P","I">>
\* 'Auto-generated by generate_constants_tlb.py from Femap type library (.tlb)'
S_ConstH4 == <<"A","u","t","o","-","g","e","n","e","r","a","t","e","d"," ","b","y"," ","g","e","n","e","r","a","t","e","_","c","o","n","s","t","a","n","t","s","_","t","l","b",".","p","y"," ","f","r","o","m"," ","F","e","m","a","p"," ","t","y","p","e"," ","l","i","b","r","a","r","y"," ","(",".","t","l","b",")">>
\* 'DO NOT EDIT MANUALLY - regenerate using: python generate_constants_tlb.py'
S_ConstH5 == <<"D","O"," ","N","O","T"," ","E","D","I","T"," ","M","A","N","U","A","L","L","Y"," ","-"," ","r","e","g","e","n","e","r","a","t","e"," ","u","s","i","n","g",":"," ","p","y","t","h","o","n"," ","g","e","n","e","r","a","t","e","_","c","o","n","s","t","a","n","t","s","_","t","l","b",".","p","y">>
\* 'Uses IntEnum for type safety - each enum is a distinct type that'
S_ConstH7 == <<"U","s","e","s"," ","I","n","t","E","n","u","m"," ","f","o","r"," ","t","y","p","e"," ","s","a","f","e","t","y"," ","-"," ","e","a","c","h"," ","e","n","u","m"," ","i","s"," ","a"," ","d","i","s","t","i","n","c","t"," ","t","y","p","e"," ","t","h","a","t">>
\* 'type checkers can verify (e.g., ReturnCode vs Color are not interchangeable).'
S_ConstH8 == <<"t","y","p","e"," ","c","h","e","c","k","e","r","s"," ","c","a","n"," ","v","e","r","i","f","y"," ","(","e",".","g",".",","," ","R","e","t","u","r","n","C","o","d","e"," ","v","s"," ","C","o","l","o","r"," ","a","r","e"," ","n","o","t"," ","i","n","t","e","r","c","h","a","n","g","e","a","b","l","e",")",".">>
S_ConstH10 == <<"U","s","a","g","e",":">>
\* '    from femap_constants import ReturnCode, Entity, Message, Color'
S_ConstH11 == <<" "," "," "," ","f","r","o","m"," ","f","e","m","a","p","_","c","o","n","s","t","a","n","t","s"," ","i","m","p","o","r","t"," ","R","e","t","u","r","n","C","o","d","e",","," ","E","n","t","i","t","y",","," ","M","e","s","s","a","g","e",","," ","C","o","l","o","r">>
\* '    if rc == ReturnCode.OK:'
S_ConstH13 == <<" "," "," "," ","i","f"," ","r","c"," ","=","="," ","R","e","t","u","r","n","C","o","d","e",".","O","K",":">>
\* '        app.feAppMessage(Message.NORMAL, "Success!")'
S_ConstH14 == <<" "," "," "," "," "," "," "," ","a","p","p",".","f","e","A","p","p","M","e","s","s","a","g","e","(","M","e","s","s","a","g","e",".","N","O","R","M","A","L",","," ","\"","S","u","c","c","e","s","s","!","\"",")">>
S_ConstH15 == <<"\"","\"","\"">>
\* 'from enum import IntEnum'
S_ConstH17 == <<"f","r","o","m"," ","e","n","u","m"," ","i","m","p","o","r","t"," ","I","n","t","E","n","u","m">>
\* '# ======================================================================'
S_Rule70 == <<"#"," ","=","=","=","=","=","=","=","=","=","=","=","=","=","=","=","=","=","=","=","=","=","=","=","=","=","=","=","=","=","=","=","=","=","=","=","=","=","=","=","=","=","=","=","=","=","=","=","=","=","=","=","=","=","=","=","=","=","=","=","=","=","=","=","=","=","=","=","=","=","=">>
\* '# Tier 2: Auto-Generated Enums (Direct Mapping)'
S_T2H3 == <<"#"," ","T","i","e","r"," ","2",":"," ","A","u","t","o","-","G","e","n","e","r","a","t","e","d"," ","E","n","u","m","s"," ","(","D","i","r","e","c","t"," ","M","a","p","p","i","n","g",")">>
\* '# The following enums are generated directly from the .tlb file'
S_T2H5 == <<"#"," ","T","h","e"," ","f","o","l","l","o","w","i","n","g"," ","e","n","u","m","s"," ","a","r","e"," ","g","e","n","e","r","a","t","e","d"," ","d","i","r","e","c","t","l","y"," ","f","r","o","m"," ","t","h","e"," ",".","t","l","b"," ","f","i","l","e">>
\* '# Enums with multiple prefixes use nested subclasses for organization.'
S_T2H6 == <<"#"," ","E","n","u","m","s"," ","w","i","t","h"," ","m","u","l","t","i","p","l","e"," ","p","r","e","f","i","x","e","s"," ","u","s","e"," ","n","e","s","t","e","d"," ","s","u","b","c","l","a","s","s","e","s"," ","f","o","r"," ","o","r","g","a","n","i","z","a","t","i","o","n",".">>
\* '# Constant names are preserved exactly as they appear in the .tlb.'
S_T2H7 == <<"#"," ","C","o","n","s","t","a","n","t"," ","n","a","m","e","s"," ","a","r","e"," ","p","r","e","s","e","r","v","e","d"," ","e","x","a","c","t","l","y"," ","a","s"," ","t","h","e","y"," ","a","p","p","e","a","r"," ","i","n"," ","t","h","e"," ",".","t","l","b",".">>
S_IntEnumColon == <<"(","I","n","t","E","n","u","m",")",":">>
S_Colon == <<":">>
\* '    """Constants from '
S_DocFrom == <<" "," "," "," ","\"","\"","\"","C","o","n","s","t","a","n","t","s"," ","f","r","o","m"," ">>
S_DocEnum == <<" ","e","n","u","m",".","\"","\"","\"">>
\* ' enum (nested grouping)."""'
S_DocNested == <<" ","e","n","u","m"," ","(","n","e","s","t","e","d"," ","g","r","o","u","p","i","n","g",")",".","\"","\"","\"">>
\* ' enum (auto-generated)."""'
S_DocAuto == <<" ","e","n","u","m"," ","(","a","u","t","o","-","g","e","n","e","r","a","t","e","d",")",".","\"","\"","\"">>
\* ' enum (auto-generated, nested by prefix)."""'
S_DocAutoNested == <<" ","e","n","u","m"," ","(","a","u","t","o","-","g","e","n","e","r","a","t","e","d",","," ","n","e","s","t","e","d"," ","b","y"," ","p","r","e","f","i","x",")",".","\"","\"","\"">>
S_IndentClass == <<" "," "," "," ","c","l","a","s","s"," ">>
S_Indent8 == <<" "," "," "," "," "," "," "," ">>
\* '        """Constants with '
S_DocWith == <<" "," "," "," "," "," "," "," ","\"","\"","\"","C","o","n","s","t","a","n","t","s"," ","w","i","t","h"," ">>
S_DocPrefix == <<" ","p","r","e","f","i","x",".","\"","\"","\"">>
S_Other == <<"O","t","h","e","r">>
\* '    # Ungrouped constants'
S_UngroupedComment == <<" "," "," "," ","#"," ","U","n","g","r","o","u","p","e","d"," ","c","o","n","s","t","a","n","t","s">>
\* '# Type alias for '
S_TypeAliasFor == <<"#"," ","T","y","p","e"," ","a","l","i","a","s"," ","f","o","r"," ">>
\* ' nested IntEnums'
S_NestedIntEnums == <<" ","n","e","s","t","e","d"," ","I","n","t","E","n","u","m","s">>
S_TypeEq == <<"T","y","p","e"," ","="," ">>
S_Dot == <<".">>
\* '# Generation Summary'
S_SummaryTitle == <<"#"," ","G","e","n","e","r","a","t","i","o","n"," ","S","u","m","m","a","r","y">>
\* '# Tier 1: Curated Aliases ('
S_Tier1Open == <<"#"," ","T","i","e","r"," ","1",":"," ","C","u","r","a","t","e","d"," ","A","l","i","a","s","e","s"," ","(">>
S_EnumsComma == <<" ","e","n","u","m","s",","," ">>
S_ConstantsClose == <<" ","c","o","n","s","t","a","n","t","s",")">>
S_Hash3 == <<"#"," "," "," ">>
S_SpOpen == <<" ","(">>
\* ' constants) from '
S_ConstantsFrom == <<" ","c","o","n","s","t","a","n","t","s",")"," ","f","r","o","m"," ">>
\* '# Tier 1 Skipped: '
S_SkippedOpen == <<"#"," ","T","i","e","r"," ","1"," ","S","k","i","p","p","e","d",":"," ">>
\* ' enums (not found in .tlb):'
S_SkippedClose == <<" ","e","n","u","m","s"," ","(","n","o","t"," ","f","o","u","n","d"," ","i","n"," ",".","t","l","b",")",":">>
S_Hash == <<"#">>
\* '# Tier 2: Auto-Generated ('
S_Tier2Open == <<"#"," ","T","i","e","r"," ","2",":"," ","A","u","t","o","-","G","e","n","e","r","a","t","e","d"," ","(">>
\* '#   (All remaining enums from .tlb with direct mapping)'
S_Tier2Note == <<"#"," "," "," ","(","A","l","l"," ","r","e","m","a","i","n","i","n","g"," ","e","n","u","m","s"," ","f","r","o","m"," ",".","t","l","b"," ","w","i","t","h"," ","d","i","r","e","c","t"," ","m","a","p","p","i","n","g",")">>
S_TotalOpen == <<"#"," ","T","o","t","a","l",":"," ">>
S_Constants == <<" ","c","o","n","s","t","a","n","t","s">>

\* the value standing for an exception that leaves the function
EXC == <<"!","r","a","i","s","e","d","!">>
\* no value yet
NoStr == <<>>

---------------------------------------------------------------------------
(* Python values *)

PyNone == [t |-> "none"]
PyInt(n) == [t |-> "int", v |-> n]
PyTuple(s) == [t |-> "tuple", items |-> s]

---------------------------------------------------------------------------
(* generate_stubs_tlb.py: the resolver *)

VT_NAMES ==
    (0 :> S_None) @@ (2 :> S_int) @@ (3 :> S_int) @@ (4 :> S_float) @@
    (5 :> S_float) @@ (6 :> S_float) @@ (7 :> S_float) @@ (8 :> S_str) @@
    (9 :> S_Any) @@ (10 :> S_int) @@ (11 :> S_bool) @@ (12 :> S_Any) @@
    (13 :> S_Any) @@ (16 :> S_int) @@ (17 :> S_int) @@ (18 :> S_int) @@
    (19 :> S_int) @@ (20 :> S_int) @@ (21 :> S_int) @@ (22 :> S_int) @@
    (23 :> S_int) @@ (24 :> S_None) @@ (25 :> S_int)

VT_PTR == 26
VT_SAFEARRAY == 27
VT_USERDEFINED == 29

\* VT_NAMES.get(vt, 'Any')
VtLookupWrongDefault(vt) ==
    IF vt \in DOMAIN VT_NAMES THEN VT_NAMES[vt] ELSE S_int

VtLookup(vt) ==
    IF vt \in DOMAIN VT_NAMES THEN VT_NAMES[vt] ELSE S_Any

\* f'Tuple[{elem_type}, ...]'
ArrayOfDropsElem(elem_type) ==
    S_TupleOpen \o S_Any \o S_Ellipsis

ArrayOf(elem_type) ==
    S_TupleOpen \o elem_type \o S_Ellipsis

\* tinfo.GetRefTypeInfo(href).GetDocumentation(-1)[0]: the referenced entry's
\* name, or EXC when either host call raises
RefName(ti, href) ==
    IF href.t = "int" /\ href.v \in DOMAIN ti.refs /\ ~ti.refs[href.v].raises
    THEN ti.refs[href.v].name
    ELSE EXC

\* the VT_USERDEFINED branch: try the lookup, fall back to 'int'
UserDefinedPropagates(ti, href) ==
    IF href.t # "none" THEN RefName(ti, href) ELSE S_int

UserDefined(ti, href) ==
    IF href.t # "none"
    THEN IF RefName(ti, href) # EXC THEN RefName(ti, href) ELSE S_int
    ELSE S_int

\* typedesc[1] if len(typedesc) > 1 else None
Second(items) == IF Len(items) > 1 THEN items[2] ELSE PyNone

RECURSIVE resolve_type(_, _)
resolve_type(ti, td) ==
    IF td.t = "none" THEN S_Any
    ELSE IF td.t = "int" THEN VtLookup(td.v)
    ELSE IF td.t = "tuple" THEN
        IF Len(td.items) = 0 THEN S_Any
        ELSE LET vt == td.items[1] IN
            IF vt.t = "tuple" THEN resolve_type(ti, vt)
            ELSE IF vt.t = "int" THEN
                IF vt.v = VT_PTR THEN resolve_type(ti, Second(td.items))
                ELSE IF vt.v = VT_SAFEARRAY THEN
                    IF Second(td.items).t # "none"
                    THEN ArrayOf(resolve_type(ti, Second(td.items)))
                    ELSE S_TupleOpen \o S_Any \o S_Ellipsis
                ELSE IF vt.v = VT_USERDEFINED THEN
                    UserDefined(ti, Second(td.items))
                ELSE VtLookup(vt.v)
            ELSE S_Any
    ELSE S_Any

---------------------------------------------------------------------------
(* Python built-ins the generators use *)

Digits == <<"0","1","2","3","4","5","6","7","8","9">>

\* c.isdigit()
IsDigit(c) == \E i \in 1 .. 10 : Digits[i] = c

\* s.startswith(p)
StartsWith(s, p) == Len(p) <= Len(s) /\ SubSeq(s, 1, Len(p)) = p

\* str(n) of a natural number
RECURSIVE NatToStr(_)
NatToStr(n) ==
    IF n < 10 THEN <<Digits[n + 1]>>
    ELSE NatToStr(n \div 10) \o <<Digits[(n % 10) + 1]>>

\* str(n), as an f-string renders an int
IntToStr(n) == IF n < 0 THEN S_Minus \o NatToStr(0 - n) ELSE NatToStr(n)

\* an insertion that puts x before the elements of its value
InsertByValueTiesReversed(acc, x) ==
    LET p == Cardinality({j \in 1 .. Len(acc) : acc[j].value < x.value})
    IN SubSeq(acc, 1, p) \o <<x>> \o SubSeq(acc, p + 1, Len(acc))

\* sorted(s, key=lambda x: x.value): stable, ascending
InsertByValue(acc, x) ==
    LET p == Cardinality({j \in 1 .. Len(acc) : acc[j].value <= x.value})
    IN SubSeq(acc, 1, p) \o <<x>> \o SubSeq(acc, p + 1, Len(acc))

RECURSIVE SortedByValue(_)
SortedByValue(s) ==
    IF s = <<>> THEN <<>>
    ELSE InsertByValue(SortedByValue(SubSeq(s, 1, Len(s) - 1)), s[Len(s)])

\* the printable characters in code point order (without the backquote)
Ascii ==
    <<" ", "!", "\"", "#", "$", "%", "&", "'", "(", ")", "*", "+",
       ",", "-", ".", "/", "0", "1", "2", "3", "4", "5", "6", "7",
       "8", "9", ":", ";", "<", "=", ">", "?", "@", "A", "B", "C",
       "D", "E", "F", "G", "H", "I", "J", "K", "L", "M", "N", "O",
       "P", "Q", "R", "S", "T", "U", "V", "W", "X", "Y", "Z", "[",
       "\\", "]", "^", "_", "a", "b", "c", "d", "e", "f", "g",
       "h", "i", "j", "k", "l", "m", "n", "o", "p", "q", "r", "s",
       "t", "u", "v", "w", "x", "y", "z", "{", "|", "}", "~" >>

\* ord(c), up to a shift
Ord(c) == CHOOSE i \in 1 .. Len(Ascii) : Ascii[i] = c

\* a < b on str
RECURSIVE StrLess(_, _)
StrLess(a, b) ==
    IF b = <<>> THEN FALSE
    ELSE IF a = <<>> THEN TRUE
    ELSE IF a[1] # b[1] THEN Ord(a[1]) < Ord(b[1])
    ELSE StrLess(Tail(a), Tail(b))

\* sorted(s, key=lambda x: x['name']): stable, ascending
InsertByName(acc, x) ==
    LET p == Cardinality({j \in 1 .. Len(acc) : ~StrLess(x.name, acc[j].name)})
    IN SubSeq(acc, 1, p) \o <<x>> \o SubSeq(acc, p + 1, Len(acc))

RECURSIVE SortedByName(_)
SortedByName(s) ==
    IF s = <<>> THEN <<>>
    ELSE InsertByName(SortedByName(SubSeq(s, 1, Len(s) - 1)), s[Len(s)])

\* sorted(S) of a set of str
RECURSIVE SortedStrings(_)
SortedStrings(S) ==
    IF S = {} THEN <<>>
    ELSE LET least == CHOOSE x \in S : \A y \in S : ~StrLess(y, x)
         IN <<least>> \o SortedStrings(S \ {least})

\* needle in hay
Contains(hay, needle) ==
    \E i \in 0 .. Len(hay) - Len(needle) :
        SubSeq(hay, i + 1, i + Len(needle)) = needle

\* the concatenation of a sequence of line lists
RECURSIVE Flatten(_)
Flatten(ss) ==
    IF ss = <<>> THEN <<>>
    ELSE Flatten(SubSeq(ss, 1, Len(ss) - 1)) \o ss[Len(ss)]

---------------------------------------------------------------------------
(* generate_constants_tlb.py: curated flat grouping *)

ConstantInfo(n, v, e) == [name |-> n, value |-> v, enum_name |-> e]

strip_prefix_keeps_digit(name, pre) ==
    IF StartsWith(name, pre)
    THEN SubSeq(name, Len(pre) + 1, Len(name))
    ELSE name

strip_prefix(name, pre) ==
    IF StartsWith(name, pre)
    THEN LET result == SubSeq(name, Len(pre) + 1, Len(name))
         IN IF result # <<>> /\ IsDigit(result[1])
            THEN S_Underscore \o result
            ELSE result
    ELSE name

\* one line of a flat class: the alias (the full name when stripping leaves
\* nothing) and the value
FlatLine(const, pre) ==
    LET alias == strip_prefix(const.name, pre)
    IN S_Indent4 \o (IF alias = <<>> THEN const.name ELSE alias) \o S_Eq
           \o IntToStr(const.value)

generate_flat_class_unsorted(constants, pre) ==
    [i \in 1 .. Len(constants) |-> FlatLine(constants[i], pre)]

generate_flat_class(constants, pre) ==
    LET sorted == SortedByValue(constants)
    IN [i \in 1 .. Len(sorted) |-> FlatLine(sorted[i], pre)]

---------------------------------------------------------------------------
(* generate_stubs_tlb.py: the interface extractor *)

TKIND_ENUM == 0
TKIND_DISPATCH == 4
INVOKE_FUNC == 1
INVOKE_PROPERTYGET == 2
INVOKE_PROPERTYPUT == 4
INVOKE_PROPERTYPUTREF == 8
PARAMFLAG_FOUT == 2

\* flags & 0x2, for a flag word >= 0
HasOutFlag(flags) == (flags \div PARAMFLAG_FOUT) % 2 = 1

\* get_elemdesc_type: (type_string, is_output_param)
get_elemdesc_type_never_output(ti, elemdesc) ==
    IF elemdesc.t = "none" THEN [type |-> S_Any, is_output |-> FALSE]
    ELSE IF elemdesc.t = "tuple" /\ Len(elemdesc.items) >= 1
         THEN [type |-> resolve_type(ti, elemdesc), is_output |-> FALSE]
         ELSE [type |-> S_Any, is_output |-> FALSE]

get_elemdesc_type(ti, elemdesc) ==
    IF elemdesc.t = "none" THEN [type |-> S_Any, is_output |-> FALSE]
    ELSE LET is_output ==
                 /\ elemdesc.t = "tuple"
                 /\ Len(elemdesc.items) >= 2
                 /\ elemdesc.items[2].t = "int"
                 /\ HasOutFlag(elemdesc.items[2].v)
         IN IF elemdesc.t = "tuple" /\ Len(elemdesc.items) >= 1
            THEN [type |-> resolve_type(ti, elemdesc), is_output |-> is_output]
            ELSE [type |-> S_Any, is_output |-> is_output]

\* func_names[k + 1] if k + 1 < len(func_names) else f'arg{k}'   (k from 0)
ParamName(func_names, k) ==
    IF k + 1 < Len(func_names) THEN func_names[k + 2] ELSE S_arg \o IntToStr(k)

\* the (name, type) pairs of an indexed accessor: is_output is ignored
AccessorParams(ti, f) ==
    [k \in 1 .. Len(f.args) |->
        <<ParamName(f.names, k - 1), get_elemdesc_type(ti, f.args[k]).type>>]

\* the (name, type, is_optional) triples of a plain method
MethodParams(ti, f) ==
    [k \in 1 .. Len(f.args) |->
        <<ParamName(f.names, k - 1), get_elemdesc_type(ti, f.args[k]).type,
          get_elemdesc_type(ti, f.args[k]).is_output>>]

\* the resolved types of the output parameters, in declaration order
RECURSIVE OutputTypes(_, _)
OutputTypes(ti, args) ==
    IF args = <<>> THEN <<>>
    ELSE LET r == get_elemdesc_type(ti, args[Len(args)])
         IN OutputTypes(ti, SubSeq(args, 1, Len(args) - 1))
                \o (IF r.is_output THEN <<r.type>> ELSE <<>>)

\* sep.join(parts)
RECURSIVE Join(_, _)
Join(sep, parts) ==
    IF parts = <<>> THEN <<>>
    ELSE IF Len(parts) = 1 THEN parts[1]
    ELSE Join(sep, SubSeq(parts, 1, Len(parts) - 1)) \o sep \o parts[Len(parts)]

\* Tuple[ret_type, ...output_types] when there are output parameters
FinalReturnTypePlain(ret_type, output_types) == ret_type

FinalReturnType(ret_type, output_types) ==
    IF output_types # <<>>
    THEN S_TupleOpen \o Join(S_CommaSp, <<ret_type>> \o output_types) \o S_Close
    ELSE ret_type

\* d[name] = rec on an insertion-ordered dict held as a sequence of records
DictHas(d, name) == \E i \in 1 .. Len(d) : d[i].name = name

DictGet(d, name) == d[CHOOSE i \in 1 .. Len(d) : d[i].name = name]

DictSet(d, rec) ==
    IF DictHas(d, rec.name)
    THEN [i \in 1 .. Len(d) |-> IF d[i].name = rec.name THEN rec ELSE d[i]]
    ELSE Append(d, rec)

NoParams == [some |-> FALSE, v |-> <<>>]
SomeParams(ps) == [some |-> TRUE, v |-> ps]

Prop(n, ty, hs) == [name |-> n, type |-> ty, has_setter |-> hs]
Method(n, ps, rt) == [name |-> n, params |-> ps, return_type |-> rt]

\* the variables loop: simple read-write properties
RECURSIVE ScanVars(_, _)
ScanVars(ti, vs) ==
    IF vs = <<>> THEN <<>>
    ELSE LET before == ScanVars(ti, SubSeq(vs, 1, Len(vs) - 1))
             v == vs[Len(vs)]
         IN IF v.fails \/ v.names = <<>> THEN before
            ELSE DictSet(before,
                         Prop(v.names[1], resolve_type(ti, v.elemdescVar), TRUE))

\* a property getter
ScanGetter(ti, st, f) ==
    LET func_name == f.names[1]
        ret_type == resolve_type(ti, f.rettype)
    IN IF Len(f.args) > 0
       THEN [st EXCEPT !.indexed =
                DictSet(@, IF DictHas(@, func_name)
                           THEN [DictGet(@, func_name) EXCEPT
                                    !.getter_params = SomeParams(AccessorParams(ti, f)),
                                    !.type = ret_type]
                           ELSE [name |-> func_name,
                                 getter_params |-> SomeParams(AccessorParams(ti, f)),
                                 setter_params |-> NoParams,
                                 type |-> ret_type])]
       ELSE [st EXCEPT !.properties =
                DictSet(@, IF DictHas(@, func_name)
                           THEN Prop(func_name, ret_type,
                                     DictGet(@, func_name).has_setter)
                           ELSE Prop(func_name, ret_type, FALSE))]

\* a property setter that takes the type from its own parameter even when
\* the name is already among the properties
ScanSetterInfersAlways(ti, st, f) ==
    LET func_name == f.names[1]
    IN IF Len(f.args) > 1
       THEN [st EXCEPT !.indexed =
                DictSet(@, IF DictHas(@, func_name)
                           THEN [DictGet(@, func_name) EXCEPT
                                    !.setter_params = SomeParams(AccessorParams(ti, f))]
                           ELSE [name |-> func_name,
                                 getter_params |-> NoParams,
                                 setter_params |-> SomeParams(AccessorParams(ti, f)),
                                 type |-> S_Any])]
       ELSE [st EXCEPT !.properties =
                DictSet(@, IF Len(f.args) > 0
                           THEN Prop(func_name,
                                     get_elemdesc_type(ti, f.args[Len(f.args)]).type,
                                     TRUE)
                           ELSE Prop(func_name, S_Any, TRUE))]

\* a property setter (put or putref)
ScanSetter(ti, st, f) ==
    LET func_name == f.names[1]
    IN IF Len(f.args) > 1
       THEN [st EXCEPT !.indexed =
                DictSet(@, IF DictHas(@, func_name)
                           THEN [DictGet(@, func_name) EXCEPT
                                    !.setter_params = SomeParams(AccessorParams(ti, f))]
                           ELSE [name |-> func_name,
                                 getter_params |-> NoParams,
                                 setter_params |-> SomeParams(AccessorParams(ti, f)),
                                 type |-> S_Any])]
       ELSE [st EXCEPT !.properties =
                DictSet(@, IF DictHas(@, func_name)
                           THEN Prop(func_name, DictGet(@, func_name).type, TRUE)
                           ELSE IF Len(f.args) > 0
                                THEN Prop(func_name,
                                          get_elemdesc_type(ti, f.args[Len(f.args)]).type,
                                          TRUE)
                                ELSE Prop(func_name, S_Any, TRUE))]

\* a regular method
ScanMethod(ti, st, f) ==
    [st EXCEPT !.methods =
        Append(@, Method(f.names[1], MethodParams(ti, f),
                         FinalReturnType(resolve_type(ti, f.rettype),
                                         OutputTypes(ti, f.args))))]

\* one iteration of the functions loop
ScanFunc(ti, st, f) ==
    IF f.fails # "no" \/ f.names = <<>> THEN st
    ELSE IF f.invkind = INVOKE_PROPERTYGET THEN ScanGetter(ti, st, f)
    ELSE IF f.invkind \in {INVOKE_PROPERTYPUT, INVOKE_PROPERTYPUTREF}
         THEN ScanSetter(ti, st, f)
    ELSE ScanMethod(ti, st, f)

RECURSIVE ScanFuncs(_, _, _)
ScanFuncs(ti, st, fs) ==
    IF fs = <<>> THEN st
    ELSE ScanFunc(ti, ScanFuncs(ti, st, SubSeq(fs, 1, Len(fs) - 1)), fs[Len(fs)])

\* indexed properties become method pairs: the reader, then the 'Set' writer
RECURSIVE IndexedMethodsReaderOnly(_)
IndexedMethodsReaderOnly(ix) ==
    IF ix = <<>> THEN <<>>
    ELSE LET p == ix[Len(ix)]
         IN IndexedMethodsReaderOnly(SubSeq(ix, 1, Len(ix) - 1))
            \o (IF p.getter_params.some
                THEN <<Method(p.name, p.getter_params.v, p.type)>> ELSE <<>>)

RECURSIVE IndexedMethods(_)
IndexedMethods(ix) ==
    IF ix = <<>> THEN <<>>
    ELSE LET p == ix[Len(ix)]
         IN IndexedMethods(SubSeq(ix, 1, Len(ix) - 1))
            \o (IF p.getter_params.some
                THEN <<Method(p.name, p.getter_params.v, p.type)>> ELSE <<>>)
            \o (IF p.setter_params.some
                THEN <<Method(S_Set \o p.name, p.setter_params.v, S_None)>>
                ELSE <<>>)

\* extract_interface_info on an entry whose host calls succeeded; the
\* result for an entry that is no dispatch interface is None
NoInterface == [none |-> TRUE]

extract_interface_info(entry) ==
    IF entry.typekind # TKIND_DISPATCH THEN NoInterface
    ELSE LET st == ScanFuncs(entry.tinfo,
                             [properties |-> ScanVars(entry.tinfo, entry.vars),
                              methods |-> <<>>, indexed |-> <<>>],
                             entry.funcs)
         IN [none |-> FALSE,
             name |-> entry.name,
             properties |-> st.properties,
             methods |-> st.methods \o IndexedMethods(st.indexed)]

---------------------------------------------------------------------------
(* generate_constants_tlb.py: the alias configuration (the rules of the    *)
(* table that differ in kind: flat primary rules, the nested rule, and the *)
(* primary and virtual rules of zColor), in the order of the table         *)

AliasRule(k, a, pre, n) == [key |-> k, alias |-> a, prefix |-> pre, nested |-> n]

ALIAS_CONFIG ==
    << AliasRule(S_zReturnCode, S_ReturnCode, S_FE_, FALSE),
       AliasRule(S_zCSysType, S_CSys, S_FCS_, FALSE),
       AliasRule(S_zGroupDefinitionType, S_GroupDef, S_FGD_, TRUE),
       AliasRule(S_zColor, S_Color, S_FCL_, FALSE),
       AliasRule(S_zColor_FPF_, S_BrushPattern, S_FPF_, FALSE),
       AliasRule(S_zColor_FPL_, S_PenLineStyle, S_FPL_, FALSE) >>

\* s.find(ch) + 1: the position of the first ch in s, 0 when there is none
IndexOf(s, ch) ==
    IF \E i \in 1 .. Len(s) : s[i] = ch
    THEN CHOOSE i \in 1 .. Len(s) :
            s[i] = ch /\ \A j \in 1 .. i - 1 : s[j] # ch
    ELSE 0

\* ':' in enum_key
IsVirtualKey(key) == IndexOf(key, ":") > 0

\* key.split(':', 1): the enumeration name and the filter prefix
KeyEnum(key) ==
    IF IsVirtualKey(key) THEN SubSeq(key, 1, IndexOf(key, ":") - 1) ELSE key

KeyFilter(key) == SubSeq(key, IndexOf(key, ":") + 1, Len(key))

---------------------------------------------------------------------------
(* generate_stubs_tlb.py: the alias and union maps, translate_type *)

\* the first loop over ALIAS_CONFIG: virtual rules append their alias to the
\* union list of their base enumeration
RECURSIVE UnionMapOfVirtuals(_)
UnionMapOfVirtuals(config) ==
    IF config = <<>> THEN <<>>
    ELSE LET before == UnionMapOfVirtuals(SubSeq(config, 1, Len(config) - 1))
             rule == config[Len(config)]
             base == KeyEnum(rule.key)
         IN IF ~IsVirtualKey(rule.key) THEN before
            ELSE IF DictHas(before, base)
                 THEN DictSet(before,
                              [name |-> base,
                               subsets |-> Append(DictGet(before, base).subsets,
                                                  rule.alias)])
                 ELSE Append(before, [name |-> base, subsets |-> <<rule.alias>>])

\* the first loop over ALIAS_CONFIG: primary rules
RECURSIVE AliasMapOf(_)
AliasMapOf(config) ==
    IF config = <<>> THEN <<>>
    ELSE LET before == AliasMapOf(SubSeq(config, 1, Len(config) - 1))
             rule == config[Len(config)]
         IN IF IsVirtualKey(rule.key) THEN before
            ELSE DictSet(before, [name |-> rule.key, alias |-> rule.alias])

ENUM_ALIAS_MAP == AliasMapOf(ALIAS_CONFIG)

\* the second loop: subsets.insert(0, primary alias)
WithPrimaryLast(entry) ==
    IF DictHas(ENUM_ALIAS_MAP, entry.name)
    THEN [entry EXCEPT !.subsets = Append(@, DictGet(ENUM_ALIAS_MAP, entry.name).alias)]
    ELSE entry

WithPrimaryFirst(entry) ==
    IF DictHas(ENUM_ALIAS_MAP, entry.name)
    THEN [entry EXCEPT !.subsets = <<DictGet(ENUM_ALIAS_MAP, entry.name).alias>> \o @]
    ELSE entry

ENUM_UNION_MAP ==
    LET virtuals == UnionMapOfVirtuals(ALIAS_CONFIG)
    IN [i \in 1 .. Len(virtuals) |-> WithPrimaryFirst(virtuals[i])]

\* s.strip()
RECURSIVE Strip(_)
Strip(s) ==
    IF s = <<>> THEN s
    ELSE IF s[1] = " " THEN Strip(Tail(s))
    ELSE IF s[Len(s)] = " " THEN Strip(SubSeq(s, 1, Len(s) - 1))
    ELSE s

\* depth when the loop reads character k of the inside of 'Tuple[...]': the
\* '[' read before it less the ']' read before it
DepthAt(inner, k) ==
    Cardinality({x \in 1 .. k - 1 : inner[x] = "["})
        - Cardinality({x \in 1 .. k - 1 : inner[x] = "]"})

\* the commas the loop splits at: those read at depth 0
SplitCommas(inner) ==
    {k \in 1 .. Len(inner) : inner[k] = "," /\ DepthAt(inner, k) = 0}

\* `current` when the loop reaches position k (the end of the string when
\* k = Len(inner) + 1): what follows the last split comma before k
CurrentAt(inner, k) ==
    LET before == {c \in SplitCommas(inner) : c < k}
        from == IF before = {} THEN 1
                ELSE 1 + CHOOSE c \in before : \A d \in before : d <= c
    IN SubSeq(inner, from, k - 1)

\* parts after the loop: current.strip() at every split comma, and at the
\* end when it is not empty
TupleParts(inner) ==
    LET commas == SplitCommas(inner)
        Nth(n) == CHOOSE c \in commas : Cardinality({d \in commas : d < c}) = n - 1
        parts == [n \in 1 .. Cardinality(commas) |-> Strip(CurrentAt(inner, Nth(n)))]
        last == Strip(CurrentAt(inner, Len(inner) + 1))
    IN IF last # <<>> THEN Append(parts, last) ELSE parts

\* the lookup of a name that is no 'Tuple[': the union, else the alias,
\* else the name itself
TranslateNameNoUnion(type_str) ==
    IF DictHas(ENUM_ALIAS_MAP, type_str)
    THEN DictGet(ENUM_ALIAS_MAP, type_str).alias
    ELSE type_str

TranslateName(type_str) ==
    IF DictHas(ENUM_UNION_MAP, type_str)
    THEN Join(S_Bar, DictGet(ENUM_UNION_MAP, type_str).subsets)
    ELSE IF DictHas(ENUM_ALIAS_MAP, type_str)
         THEN DictGet(ENUM_ALIAS_MAP, type_str).alias
         ELSE type_str

RECURSIVE translate_type(_)
translate_type(type_str) ==
    IF StartsWith(type_str, S_TupleOpen)
    THEN LET parts == TupleParts(SubSeq(type_str, 7, Len(type_str) - 1))
         IN S_TupleOpen
            \o Join(S_CommaSp, [i \in 1 .. Len(parts) |-> translate_type(parts[i])])
            \o S_Close
    ELSE TranslateName(type_str)

---------------------------------------------------------------------------
(* generate_constants_tlb.py: parse_constants_from_tlb *)

\* the members loop of one enumeration: a member whose host call raises or
\* whose value is no int is skipped, every other member is appended in host
\* order
RECURSIVE ParsedMembers(_, _)
ParsedMembers(members, enum_name) ==
    IF members = <<>> THEN <<>>
    ELSE LET m == members[Len(members)]
         IN ParsedMembers(SubSeq(members, 1, Len(members) - 1), enum_name)
            \o (IF m.fails \/ ~m.isint THEN <<>>
                ELSE <<ConstantInfo(m.name, m.value, enum_name)>>)

\* an entry-level host call raises: nothing catches it
ParseRaises(tl) == \E i \in 1 .. Len(tl) : tl[i].fails

\* the dict the parser returns: an enumeration gets a key with its first
\* appended member
RECURSIVE parse_constants_from_tlb(_)
parse_constants_from_tlb(tl) ==
    IF tl = <<>> THEN <<>>
    ELSE LET before == parse_constants_from_tlb(SubSeq(tl, 1, Len(tl) - 1))
             e == tl[Len(tl)]
             found == IF e.typekind = TKIND_ENUM
                      THEN ParsedMembers(e.members, e.name) ELSE <<>>
         IN IF found = <<>> THEN before
            ELSE DictSet(before,
                         [name |-> e.name,
                          consts |-> (IF DictHas(before, e.name)
                                      THEN DictGet(before, e.name).consts
                                      ELSE <<>>) \o found])

---------------------------------------------------------------------------
(* generate_constants_tlb.py: the class generators *)

\* s.split('_', 1)
SplitFirst(s) ==
    LET i == IndexOf(s, "_")
    IN IF i = 0 THEN <<s>>
       ELSE <<SubSeq(s, 1, i - 1), SubSeq(s, i + 1, Len(s))>>

\* s.rstrip('_')
RECURSIVE RStrip(_)
RStrip(s) ==
    IF s # <<>> /\ s[Len(s)] = "_" THEN RStrip(SubSeq(s, 1, Len(s) - 1)) ELSE s

\* groups and ungrouped of generate_nested_class after its first loop
RECURSIVE NestedGroups(_, _)
NestedGroups(constants, pre) ==
    IF constants = <<>> THEN [groups |-> <<>>, ungrouped |-> <<>>]
    ELSE LET before == NestedGroups(SubSeq(constants, 1, Len(constants) - 1), pre)
             const == constants[Len(constants)]
             stripped == strip_prefix(const.name, pre)
             parts == SplitFirst(stripped)
         IN IF Len(parts) = 2
            THEN [before EXCEPT !.groups =
                     DictSet(before.groups,
                             [name |-> parts[1],
                              members |->
                                  (IF DictHas(before.groups, parts[1])
                                   THEN DictGet(before.groups, parts[1]).members
                                   ELSE <<>>)
                                  \o <<[member_name |-> parts[2],
                                        value |-> const.value]>>])]
            ELSE [before EXCEPT !.ungrouped =
                     Append(before.ungrouped,
                            [member_name |-> stripped, value |-> const.value])]

\* the lines of one secondary group: header, members by value, blank
NestedGroupLines(group) ==
    LET sorted == SortedByValue(group.members)
    IN <<S_IndentClass \o group.name \o S_IntEnumColon>>
       \o [i \in 1 .. Len(sorted) |->
              S_Indent8
                \o (IF sorted[i].member_name # <<>> /\ IsDigit(sorted[i].member_name[1])
                    THEN S_Underscore \o sorted[i].member_name
                    ELSE sorted[i].member_name)
                \o S_Eq \o IntToStr(sorted[i].value)]
       \o << <<>> >>

generate_nested_class(constants, pre) ==
    LET st == NestedGroups(constants, pre)
        sorted == SortedByName(st.groups)
        loose == SortedByValue(st.ungrouped)
    IN [lines |->
            Flatten([i \in 1 .. Len(sorted) |-> NestedGroupLines(sorted[i])])
            \o (IF loose # <<>>
                THEN <<S_UngroupedComment>>
                     \o [i \in 1 .. Len(loose) |->
                            S_Indent4 \o loose[i].member_name \o S_Eq
                                \o IntToStr(loose[i].value)]
                     \o << <<>> >>
                ELSE <<>>),
        nested_class_names |-> [i \in 1 .. Len(sorted) |-> sorted[i].name]]

\* prefix_groups of detect_prefixes after its loop
RECURSIVE PrefixGroups(_)
PrefixGroups(consts) ==
    IF consts = <<>> THEN <<>>
    ELSE LET before == PrefixGroups(SubSeq(consts, 1, Len(consts) - 1))
             const == consts[Len(consts)]
             parts == SplitFirst(const.name)
             pre == IF Len(parts) > 1 THEN parts[1] \o S_Underscore ELSE <<>>
         IN DictSet(before,
                    [name |-> pre,
                     consts |-> (IF DictHas(before, pre)
                                 THEN DictGet(before, pre).consts ELSE <<>>)
                                \o <<const>>])

\* the groups kept whenever there is more than one, a root group among them
\* or not
detect_prefixes_nests_mixed(consts) ==
    IF Len(PrefixGroups(consts)) > 1 THEN PrefixGroups(consts)
    ELSE <<[name |-> <<>>, consts |-> consts]>>

detect_prefixes(consts) ==
    LET prefix_groups == PrefixGroups(consts)
    IN IF Len(prefix_groups) > 1 /\ ~DictHas(prefix_groups, <<>>)
       THEN prefix_groups
       ELSE <<[name |-> <<>>, consts |-> consts]>>

Tier2Header ==
    << <<>>, S_Rule70, S_T2H3, S_Rule70, S_T2H5, S_T2H6, S_T2H7, <<>> >>

\* '{indent}{name} = {value}' for the constants by value
RawMemberLines(indent, consts) ==
    LET sorted == SortedByValue(consts)
    IN [i \in 1 .. Len(sorted) |->
           indent \o sorted[i].name \o S_Eq \o IntToStr(sorted[i].value)]

\* one nested class of an auto-generated enumeration
Tier2PrefixLines(group) ==
    <<S_IndentClass
        \o (IF group.name # <<>> THEN RStrip(group.name) ELSE S_Other)
        \o S_IntEnumColon,
      S_DocWith \o group.name \o S_DocPrefix,
      <<>>>>
    \o RawMemberLines(S_Indent8, group.consts)
    \o << <<>> >>

\* the lines of one auto-generated enumeration
Tier2EnumLines(enum) ==
    LET prefix_groups == detect_prefixes(enum.consts)
        sorted == SortedByName(prefix_groups)
    IN IF enum.consts = <<>> THEN <<>>
       ELSE IF Len(prefix_groups) = 1 /\ DictHas(prefix_groups, <<>>)
       THEN <<S_Class \o enum.name \o S_IntEnumColon,
              S_DocFrom \o enum.name \o S_DocAuto,
              <<>>>>
            \o RawMemberLines(S_Indent4, enum.consts)
            \o << <<>>, <<>> >>
       ELSE <<S_Class \o enum.name \o S_Colon,
              S_DocFrom \o enum.name \o S_DocAutoNested,
              <<>>>>
            \o Flatten([i \in 1 .. Len(sorted) |-> Tier2PrefixLines(sorted[i])])
            \o << <<>> >>

RECURSIVE CountConstants(_)
CountConstants(ens) ==
    IF ens = <<>> THEN 0
    ELSE CountConstants(SubSeq(ens, 1, Len(ens) - 1)) + Len(ens[Len(ens)].consts)

\* the enumerations the loop does not pass over ('if not const_list: continue')
RECURSIVE NonEmptyEnums(_)
NonEmptyEnums(ens) ==
    IF ens = <<>> THEN <<>>
    ELSE NonEmptyEnums(SubSeq(ens, 1, Len(ens) - 1))
         \o (IF ens[Len(ens)].consts # <<>> THEN <<ens[Len(ens)]>> ELSE <<>>)

\* the loop taken over enums.keys() as the dict holds them, without sorted()
generate_tier2_direct_unsorted(ens) ==
    [lines |-> Tier2Header
               \o Flatten([i \in 1 .. Len(ens) |-> Tier2EnumLines(ens[i])]),
     tier2_count |-> CountConstants(NonEmptyEnums(ens)),
     tier2_enums |-> Len(NonEmptyEnums(ens))]

\* (lines, tier2_count, tier2_enums)
generate_tier2_direct(ens) ==
    LET sorted == SortedByName(ens)
        counted == NonEmptyEnums(sorted)
    IN [lines |-> Tier2Header
                  \o Flatten([i \in 1 .. Len(sorted) |-> Tier2EnumLines(sorted[i])]),
        tier2_count |-> CountConstants(counted),
        tier2_enums |-> Len(counted)]

---------------------------------------------------------------------------
(* generate_constants_tlb.py: generate_constants_file *)

ConstantsHeader ==
    <<S_ConstH1, S_ConstH2, <<>>, S_ConstH4, S_ConstH5, <<>>, S_ConstH7,
      S_ConstH8, <<>>, S_ConstH10, S_ConstH11, <<>>, S_ConstH13, S_ConstH14,
      S_ConstH15, <<>>, S_ConstH17, <<>>, <<>>>>

\* [c for c in const_list if c.name.startswith(filter_prefix)]
RECURSIVE FilterByPrefix(_, _)
FilterByPrefix(consts, filter_prefix) ==
    IF consts = <<>> THEN <<>>
    ELSE FilterByPrefix(SubSeq(consts, 1, Len(consts) - 1), filter_prefix)
         \o (IF StartsWith(consts[Len(consts)].name, filter_prefix)
             THEN <<consts[Len(consts)]>> ELSE <<>>)

\* the lines one processed rule appends
RuleLines(rule, enum_name, consts) ==
    IF rule.nested
    THEN LET nested == generate_nested_class(consts, rule.prefix)
         IN <<S_Class \o rule.alias \o S_Colon,
              S_DocFrom \o enum_name \o S_DocNested,
              <<>>>>
            \o nested.lines
            \o << <<>> >>
            \o (IF nested.nested_class_names # <<>>
                THEN <<S_TypeAliasFor \o rule.alias \o S_NestedIntEnums,
                       rule.alias \o S_TypeEq
                         \o Join(S_Bar,
                                 [i \in 1 .. Len(nested.nested_class_names) |->
                                     rule.alias \o S_Dot \o nested.nested_class_names[i]]),
                       <<>>>>
                ELSE <<>>)
            \o << <<>> >>
    ELSE <<S_Class \o rule.alias \o S_IntEnumColon,
           S_DocFrom \o enum_name \o S_DocEnum,
           <<>>>>
         \o generate_flat_class(consts, rule.prefix)
         \o << <<>>, <<>> >>

\* one iteration of the Tier 1 loop that stops at a skipped rule
Tier1StepAborting(st, rule, constants) ==
    LET enum_name == KeyEnum(rule.key)
        has_filter == IsVirtualKey(rule.key) /\ KeyFilter(rule.key) # <<>>
        consts == IF has_filter
                  THEN FilterByPrefix(DictGet(constants, enum_name).consts,
                                      KeyFilter(rule.key))
                  ELSE DictGet(constants, enum_name).consts
    IN IF st.skipped # <<>> THEN st
       ELSE IF ~DictHas(constants, enum_name)
       THEN [st EXCEPT !.skipped = Append(@, rule.key)]
       ELSE IF has_filter /\ consts = <<>>
       THEN [st EXCEPT !.skipped = Append(@, rule.key),
                       !.enum_names = @ \cup {enum_name}]
       ELSE [lines |-> st.lines \o RuleLines(rule, enum_name, consts),
             processed |-> Append(st.processed, <<rule.key, rule.alias, Len(consts)>>),
             skipped |-> st.skipped,
             enum_names |-> st.enum_names \cup {enum_name}]

\* one iteration of the Tier 1 loop that records the size of the whole
\* enumeration as the count of a rule
Tier1StepCountsUnfiltered(st, rule, constants) ==
    LET enum_name == KeyEnum(rule.key)
        has_filter == IsVirtualKey(rule.key) /\ KeyFilter(rule.key) # <<>>
        consts == IF has_filter
                  THEN FilterByPrefix(DictGet(constants, enum_name).consts,
                                      KeyFilter(rule.key))
                  ELSE DictGet(constants, enum_name).consts
    IN IF ~DictHas(constants, enum_name)
       THEN [st EXCEPT !.skipped = Append(@, rule.key)]
       ELSE IF has_filter /\ consts = <<>>
       THEN [st EXCEPT !.skipped = Append(@, rule.key),
                       !.enum_names = @ \cup {enum_name}]
       ELSE [lines |-> st.lines \o RuleLines(rule, enum_name, consts),
             processed |-> Append(st.processed,
                                  <<rule.key, rule.alias,
                                    Len(DictGet(constants, enum_name).consts)>>),
             skipped |-> st.skipped,
             enum_names |-> st.enum_names \cup {enum_name}]

\* one iteration of the Tier 1 loop
Tier1Step(st, rule, constants) ==
    LET enum_name == KeyEnum(rule.key)
        has_filter == IsVirtualKey(rule.key) /\ KeyFilter(rule.key) # <<>>
        consts == IF has_filter
                  THEN FilterByPrefix(DictGet(constants, enum_name).consts,
                                      KeyFilter(rule.key))
                  ELSE DictGet(constants, enum_name).consts
    IN IF ~DictHas(constants, enum_name)
       THEN [st EXCEPT !.skipped = Append(@, rule.key)]
       ELSE IF has_filter /\ consts = <<>>
       THEN [st EXCEPT !.skipped = Append(@, rule.key),
                       !.enum_names = @ \cup {enum_name}]
       ELSE [lines |-> st.lines \o RuleLines(rule, enum_name, consts),
             processed |-> Append(st.processed, <<rule.key, rule.alias, Len(consts)>>),
             skipped |-> st.skipped,
             enum_names |-> st.enum_names \cup {enum_name}]

\* the Tier 1 loop over the rules in table order
RECURSIVE Tier1(_, _)
Tier1(config, constants) ==
    IF config = <<>>
    THEN [lines |-> <<>>, processed |-> <<>>, skipped |-> <<>>, enum_names |-> {}]
    ELSE Tier1Step(Tier1(SubSeq(config, 1, Len(config) - 1), constants),
                   config[Len(config)], constants)

RECURSIVE SumCounts(_)
SumCounts(processed) ==
    IF processed = <<>> THEN 0
    ELSE SumCounts(SubSeq(processed, 1, Len(processed) - 1))
         + processed[Len(processed)][3]

\* the summary comment at the end of the document
SummaryLines(processed, skipped, tier2_enum_count, tier2_const_count) ==
    <<S_Rule70, S_SummaryTitle, S_Rule70,
      S_Tier1Open \o IntToStr(Len(processed)) \o S_EnumsComma
          \o IntToStr(SumCounts(processed)) \o S_ConstantsClose>>
    \o [i \in 1 .. Len(processed) |->
           S_Hash3 \o processed[i][2] \o S_SpOpen \o IntToStr(processed[i][3])
               \o S_ConstantsFrom \o processed[i][1]]
    \o (IF skipped # <<>>
        THEN <<S_SkippedOpen \o IntToStr(Len(skipped)) \o S_SkippedClose>>
             \o [i \in 1 .. Len(skipped) |-> S_Hash3 \o skipped[i]]
        ELSE <<>>)
    \o <<S_Hash,
         S_Tier2Open \o IntToStr(tier2_enum_count) \o S_EnumsComma
             \o IntToStr(tier2_const_count) \o S_ConstantsClose,
         S_Tier2Note,
         S_Hash,
         S_TotalOpen \o IntToStr(Len(processed) + tier2_enum_count) \o S_EnumsComma
             \o IntToStr(SumCounts(processed) + tier2_const_count) \o S_Constants>>

\* {k: v for k, v in constants.items() if k not in tier1_enum_names}
RECURSIVE NotInTier1(_, _)
NotInTier1(constants, names) ==
    IF constants = <<>> THEN <<>>
    ELSE NotInTier1(SubSeq(constants, 1, Len(constants) - 1), names)
         \o (IF constants[Len(constants)].name \notin names
             THEN <<constants[Len(constants)]>> ELSE <<>>)

\* Tier 2 over the enumerations Tier 1 left
Tier2(tier2_enums) ==
    IF tier2_enums # <<>> THEN generate_tier2_direct(tier2_enums)
    ELSE [lines |-> <<>>, tier2_count |-> 0, tier2_enums |-> 0]

\* the lines written: header, Tier 1, Tier 2, summary
DocumentLines(t1, t2) ==
    ConstantsHeader \o t1.lines \o t2.lines
        \o SummaryLines(t1.processed, t1.skipped, t2.tier2_enums, t2.tier2_count)

\* Tier 2 given every enumeration, curated or not
DocumentAfterTier1KeepsAll(t1, constants) == DocumentLines(t1, Tier2(constants))

DocumentAfterTier1(t1, constants) ==
    DocumentLines(t1, Tier2(NotInTier1(constants, t1.enum_names)))

\* the lines generate_constants_file writes
generate_constants_file(constants) ==
    DocumentAfterTier1(Tier1(ALIAS_CONFIG, constants), constants)

---------------------------------------------------------------------------
(* generate_stubs_tlb.py: generate_stub_file *)

StubHeader ==
    <<S_StubH1, S_StubH2, S_StubH3, S_StubH4, S_StubH5, S_StubH6, <<>>,
      S_StubH8, S_StubH9>>

ReservedWords ==
    {S_type, S_id, S_list, S_set, S_from, S_import, S_class, S_in, S_is,
     S_not, S_and, S_or}

\* every alias track_and_translate looks for
TrackedAliases ==
    {ENUM_ALIAS_MAP[i].alias : i \in 1 .. Len(ENUM_ALIAS_MAP)}
    \cup UNION {{ENUM_UNION_MAP[i].subsets[j] :
                    j \in 1 .. Len(ENUM_UNION_MAP[i].subsets)} :
                i \in 1 .. Len(ENUM_UNION_MAP)}

\* the aliases track_and_translate adds to used_aliases for one type
AliasesIn(type_str) ==
    {a \in TrackedAliases : Contains(translate_type(type_str), a)}

\* '{enum_name} = int' for the sorted enumeration names
EnumAliasLines(ens) ==
    LET sorted == SortedByName(ens)
    IN [i \in 1 .. Len(sorted) |-> sorted[i].name \o S_EqInt]

\* the body of 'class constants': per enumeration a comment and its members
\* by value
EnumMemberLines(enum) ==
    LET sorted == SortedByValue(enum.members)
    IN <<S_IndentHash \o enum.name>>
       \o [i \in 1 .. Len(sorted) |-> S_Indent4 \o sorted[i].name \o S_ColonInt]

ConstantsClassLines(ens) ==
    LET sorted == SortedByName(ens)
    IN Flatten([i \in 1 .. Len(sorted) |-> EnumMemberLines(sorted[i])])

\* the declarations of one simple property
PropertyLines(prop) ==
    LET prop_type == translate_type(prop.type)
    IN <<S_AtProperty,
         S_Def \o prop.name \o S_SelfArrow \o prop_type \o S_Dots>>
       \o (IF prop.has_setter
           THEN <<S_IndentAt \o prop.name \o S_DotSetter,
                  S_Def \o prop.name \o S_SelfValue \o prop_type \o S_CloseNone>>
           ELSE <<>>)

\* one parameter of a callable declaration
SafeName(param_name) ==
    IF param_name \in ReservedWords THEN param_name \o S_Underscore
    ELSE param_name

FormatParam(param_info) ==
    SafeName(param_info[1]) \o S_ColonSp \o translate_type(param_info[2])
        \o (IF Len(param_info) = 3 /\ param_info[3] THEN S_EqDots ELSE <<>>)

\* the declaration of one callable
MethodLine(method) ==
    S_Def \o method.name \o S_OpenParen
        \o Join(S_CommaSp,
                <<S_self>> \o [k \in 1 .. Len(method.params) |->
                                  FormatParam(method.params[k])])
        \o S_CloseArrow \o translate_type(method.return_type) \o S_Dots

\* one interface class
InterfaceLines(iface) ==
    LET props == SortedByName(iface.properties)
        methods == SortedByName(iface.methods)
    IN <<S_Class \o iface.name \o S_DispatchBase>>
       \o Flatten([i \in 1 .. Len(props) |-> PropertyLines(props[i])])
       \o [i \in 1 .. Len(methods) |-> MethodLine(methods[i])]
       \o (IF props = <<>> /\ methods = <<>> THEN <<S_IndentDots>> ELSE <<>>)
       \o << <<>> >>

\* used_aliases after all interfaces were rendered
UsedAliases(ifaces) ==
    UNION {
        UNION {AliasesIn(ifaces[i].properties[j].type) :
                  j \in 1 .. Len(ifaces[i].properties)}
        \cup UNION {
            AliasesIn(ifaces[i].methods[j].return_type)
            \cup UNION {AliasesIn(ifaces[i].methods[j].params[k][2]) :
                           k \in 1 .. Len(ifaces[i].methods[j].params)}
            : j \in 1 .. Len(ifaces[i].methods)}
        : i \in 1 .. Len(ifaces)}

\* the orders in which the import line can list used_aliases
ImportOrdersOfSetIteration(used) ==
    {[i \in 1 .. Cardinality(used) |-> f[i]] :
        f \in {g \in [1 .. Cardinality(used) -> used] :
                  \A i, j \in 1 .. Cardinality(used) : i # j => g[i] # g[j]}}

ImportOrders(used) == {SortedStrings(used)}

\* the line at import_line_index
ImportLine(order) ==
    IF order # <<>> THEN S_ImportFrom \o Join(S_CommaSp, order) ELSE <<>>

\* the lines generate_stub_file writes, the import line listing `order`
StubLines(ifaces, ens, order) ==
    LET sorted == SortedByName(ifaces)
    IN StubHeader
       \o <<ImportLine(order), <<>>, <<>>>>
       \o <<S_EnumTypesComment>> \o EnumAliasLines(ens) \o << <<>>, <<>> >>
       \o <<S_ClassConstants, S_ConstantsDoc>> \o ConstantsClassLines(ens)
       \o << <<>>, <<>> >>
       \o Flatten([i \in 1 .. Len(sorted) |-> InterfaceLines(sorted[i])])

---------------------------------------------------------------------------
(* Inputs of the resolver: what the metadata host hands out *)

Codes == (-1) .. MaxCode
\* a bare code is never one of the wrapper codes: the host always hands
\* those out as a tuple with their inner descriptor or handle
PlainCodes == Codes \ {VT_PTR, VT_SAFEARRAY, VT_USERDEFINED}
Hrefs == 1 .. MaxHref
Flags == 0 .. MaxFlags

RECURSIVE TypeDescs(_)
TypeDescs(d) ==
    IF d = 0
    THEN {PyInt(c) : c \in PlainCodes}
         \cup {PyTuple(<<PyInt(VT_USERDEFINED), PyInt(h)>>) : h \in Hrefs}
    ELSE TypeDescs(d - 1)
         \cup {PyTuple(<<PyInt(VT_PTR), x>>) : x \in TypeDescs(d - 1)}
         \cup {PyTuple(<<PyInt(VT_SAFEARRAY), x>>) : x \in TypeDescs(d - 1)}

\* descriptors the defensive branches of resolve_type are written for
DegenerateDescs ==
    {PyNone, PyTuple(<<>>), PyTuple(<<PyInt(VT_PTR)>>),
     PyTuple(<<PyInt(VT_SAFEARRAY)>>), PyTuple(<<PyInt(VT_USERDEFINED)>>),
     PyTuple(<<PyInt(VT_PTR), PyNone>>), PyTuple(<<PyInt(VT_SAFEARRAY), PyNone>>),
     PyTuple(<<PyInt(VT_USERDEFINED), PyNone>>)}
    \cup {PyTuple(<<PyInt(c)>>) : c \in PlainCodes}

\* ELEMDESC: (type_desc, flags, default)
ElemDescsOf(tds) == {PyTuple(<<x, PyInt(f), PyNone>>) : x \in tds, f \in Flags}

ResolverInputs ==
    TypeDescs(MaxDepth) \cup DegenerateDescs
    \cup ElemDescsOf(TypeDescs(MaxDepth - 1) \cup {PyNone, PyTuple(<<>>)})

RefOutcomes ==
    {[raises |-> FALSE, name |-> S_zColor], [raises |-> FALSE, name |-> S_INode],
     [raises |-> TRUE, name |-> NoStr]}

TypeInfos == {[refs |-> r] : r \in [Hrefs -> RefOutcomes]}

---------------------------------------------------------------------------
(* The class generators as runs: a constant list and a prefix are handed in *)

ResolverIdle ==
    /\ typedesc = PyNone
    /\ tinfo = [refs |-> <<>>]
    /\ resolved = NoStr

GroupIdle ==
    /\ const_list = <<>>
    /\ prefix = NoStr
    /\ body = <<>>

StubIdle ==
    /\ typelib = <<>>
    /\ enums = <<>>
    /\ interfaces = <<>>
    /\ stub_lines = <<>>
    /\ stub_again = <<>>

ConstIdle ==
    /\ tlb_constants = <<>>
    /\ tier1_processed = <<>>
    /\ tier1_skipped = <<>>
    /\ const_lines = <<>>
    /\ const_again = <<>>

TranslateIdle ==
    /\ type_tree = <<>>
    /\ translated = NoStr

PathIdle ==
    /\ host = <<>>
    /\ cache_file = <<>>
    /\ tlb_path = NoStr
    /\ prompted = FALSE
    /\ earlier = <<>>

MemberValues == 1 .. MaxMembers

FlatNames == {S_A_FOO, S_A_BAR, S_A_1, S_A_, S_B_X}

\* lists of at most n members with pairwise distinct names
RECURSIVE ConstListsUpTo(_, _)
ConstListsUpTo(names, n) ==
    IF n = 0 THEN {<<>>}
    ELSE LET shorter == ConstListsUpTo(names, n - 1)
         IN shorter \cup
            {Append(l, ConstantInfo(nm, v, S_zEnum)) :
                l \in {x \in shorter : Len(x) = n - 1},
                nm \in names, v \in MemberValues}

HasDistinctNames(l) ==
    \A i, j \in 1 .. Len(l) : i # j => l[i].name # l[j].name

ConstLists(names) ==
    {l \in ConstListsUpTo(names, MaxMembers) : HasDistinctNames(l)}

InitGroup ==
    /\ pc = "flat"
    /\ const_list \in ConstLists(FlatNames)
    /\ prefix = S_A_
    /\ body = <<>>
    /\ ResolverIdle
    /\ StubIdle
    /\ ConstIdle
    /\ TranslateIdle
    /\ PathIdle

GenerateFlat ==
    /\ pc = "flat"
    /\ body' = generate_flat_class(const_list, prefix)
    /\ pc' = "flat_done"
    /\ UNCHANGED <<const_list, prefix, resolverVars, stubVars, constVars,
                   translateVars, pathVars>>

NextGroup == GenerateFlat

SpecGroup == InitGroup /\ [][NextGroup]_vars

---------------------------------------------------------------------------
(* generate_stubs_tlb.py: main, over the entries of a type library *)

\* extract_enum_values: the members dict of one enumeration entry
RECURSIVE extract_enum_values(_)
extract_enum_values(members) ==
    IF members = <<>> THEN <<>>
    ELSE DictSet(extract_enum_values(SubSeq(members, 1, Len(members) - 1)),
                 [name |-> members[Len(members)].name,
                  value |-> members[Len(members)].value])

\* a host call of the first pass raises: nothing in main or
\* extract_enum_values catches it
FirstPassRaises(tl) ==
    \E i \in 1 .. Len(tl) :
        \/ tl[i].fails
        \/ /\ tl[i].typekind = TKIND_ENUM
           /\ \E j \in 1 .. Len(tl[i].members) : tl[i].members[j].fails

\* the first pass: enums[name] = extract_enum_values(typelib, i)
RECURSIVE CollectedEnums(_)
CollectedEnums(tl) ==
    IF tl = <<>> THEN <<>>
    ELSE LET before == CollectedEnums(SubSeq(tl, 1, Len(tl) - 1))
             e == tl[Len(tl)]
         IN IF e.typekind = TKIND_ENUM
            THEN DictSet(before, [name |-> e.name,
                                  members |-> extract_enum_values(e.members)])
            ELSE before

\* the second pass: every entry extract_interface_info returns a dict for
RECURSIVE ExtractedInterfaces(_)
ExtractedInterfaces(tl) ==
    IF tl = <<>> THEN <<>>
    ELSE LET iface == extract_interface_info(tl[Len(tl)])
         IN ExtractedInterfaces(SubSeq(tl, 1, Len(tl) - 1))
            \o (IF iface.none THEN <<>> ELSE <<iface>>)

---------------------------------------------------------------------------
(* Inputs of the stub generator: type libraries *)

Elem(td, flags) == PyTuple(<<td, PyInt(flags), PyNone>>)
RefTo(h) == PyTuple(<<PyInt(VT_USERDEFINED), PyInt(h)>>)
PtrTo(td) == PyTuple(<<PyInt(VT_PTR), td>>)

\* handle 1 is zColor, handle 2 is zReturnCode, handle 3 is the interface ICSys
StubTinfo ==
    [refs |-> <<[raises |-> FALSE, name |-> S_zColor],
                [raises |-> FALSE, name |-> S_zReturnCode],
                [raises |-> FALSE, name |-> S_ICSys]>>]

Func(fl, ik, ns, as, rt) ==
    [fails |-> fl, invkind |-> ik, names |-> ns, args |-> as, rettype |-> rt]

RECURSIVE SeqsUpTo(_, _)
SeqsUpTo(S, n) ==
    IF n = 0 THEN {<<>>}
    ELSE LET shorter == SeqsUpTo(S, n - 1)
         IN shorter \cup {Append(q, x) : q \in {y \in shorter : Len(y) = n - 1},
                                         x \in S}

ArgPool ==
    {Elem(PyInt(3), f) : f \in Flags}
    \cup {Elem(PtrTo(RefTo(1)), PARAMFLAG_FOUT)}

MethodPool ==
    {Func("no", INVOKE_FUNC, ns, as, rt) :
        ns \in {<<S_Move, S_id, S_x>>, <<S_Move, S_x>>, <<S_Move, S_id, S_id_>>},
        as \in SeqsUpTo(ArgPool, MaxArgs),
        rt \in {Elem(PyInt(24), 0), Elem(RefTo(2), 0)}}
    \cup {Func("GetFuncDesc", INVOKE_FUNC, <<S_Move>>, <<>>, PyNone),
          Func("GetNames", INVOKE_FUNC, <<S_Move>>, <<>>, Elem(PyInt(24), 0)),
          Func("no", INVOKE_FUNC, <<>>, <<>>, Elem(PyInt(24), 0))}

IndexArgs(n) == [k \in 1 .. n |-> Elem(PyInt(3), 1)]
IndexNames(n) == SubSeq(<<S_id, S_x>>, 1, IF n < 2 THEN n ELSE 2)

GetterPool ==
    {Func("no", INVOKE_PROPERTYGET, <<S_Item>> \o IndexNames(n), IndexArgs(n), rt) :
        n \in 0 .. MaxIndex,
        rt \in {Elem(PyInt(3), 0), Elem(RefTo(1), 0)}}

SetterPool ==
    {Func("no", ik, <<S_Item>> \o IndexNames(n), IndexArgs(n) \o v, PyInt(24)) :
        ik \in {INVOKE_PROPERTYPUT, INVOKE_PROPERTYPUTREF},
        n \in 0 .. MaxIndex,
        v \in {<<>>, <<Elem(RefTo(1), 1)>>}}

FixedMethod ==
    Func("no", INVOKE_FUNC, <<S_Move, S_x>>, <<Elem(PyInt(3), 1)>>, Elem(PyInt(24), 0))

FuncLists ==
    {<<m>> : m \in MethodPool}
    \cup {<<a>> \o t : a \in GetterPool \cup SetterPool,
                       t \in {<<>>, <<FixedMethod>>}}
    \cup {<<g, p>> \o t : g \in GetterPool, p \in SetterPool,
                          t \in {<<>>, <<FixedMethod>>}}
    \cup {<<p, g>> \o t : g \in GetterPool, p \in SetterPool,
                          t \in {<<>>, <<FixedMethod>>}}

VarLists ==
    {<<>>,
     <<[fails |-> FALSE, names |-> <<S_Visible>>, elemdescVar |-> Elem(PyInt(11), 0)]>>,
     <<[fails |-> FALSE, names |-> <<S_Visible>>,
        elemdescVar |-> Elem(PtrTo(RefTo(3)), 0)]>>}

EnumEntry(n, ms) ==
    [name |-> n, typekind |-> TKIND_ENUM, fails |-> FALSE, members |-> ms,
     tinfo |-> StubTinfo, vars |-> <<>>, funcs |-> <<>>]

InterfaceEntry(n, vs, fs) ==
    [name |-> n, typekind |-> TKIND_DISPATCH, fails |-> FALSE, members |-> <<>>,
     tinfo |-> StubTinfo, vars |-> vs, funcs |-> fs]

\* a coclass: neither an enumeration nor a dispatch interface
CoclassEntry(n) ==
    [name |-> n, typekind |-> 5, fails |-> FALSE, members |-> <<>>,
     tinfo |-> StubTinfo, vars |-> <<>>, funcs |-> <<>>]

Member(n, v, fl) == [name |-> n, value |-> v, fails |-> fl, isint |-> TRUE]

\* a member whose vardesc.value is no int (a float of magnitude v)
NonIntMember(n, v) == [name |-> n, value |-> v, fails |-> FALSE, isint |-> FALSE]

ColorEntry ==
    EnumEntry(S_zColor, <<Member(S_FCL_A, 2, FALSE), Member(S_FPF_B, 1, FALSE)>>)

ReturnCodeEntry == EnumEntry(S_zReturnCode, <<Member(S_FE_OK, -1, FALSE)>>)

\* an enumeration with a member the host fails on between readable ones
UnreadableMemberEntry ==
    EnumEntry(S_zReturnCode, <<Member(S_FE_FAIL, 0, FALSE), Member(S_FE_BAD, 2, TRUE),
                               Member(S_FE_OK, -1, FALSE)>>)

\* an enumeration with a member whose value is no int between readable ones
NonIntMemberEntry ==
    EnumEntry(S_zReturnCode, <<Member(S_FE_FAIL, 0, FALSE), NonIntMember(S_FE_FLT, 1),
                               Member(S_FE_OK, -1, FALSE)>>)

\* an entry whose GetTypeInfo, GetDocumentation or GetTypeAttr raises
BrokenEntry == [CoclassEntry(S_Broken) EXCEPT !.fails = TRUE]

LeadingEntries ==
    {<<>>, <<ColorEntry>>, <<CoclassEntry(S_App), ReturnCodeEntry, ColorEntry>>,
     <<EnumEntry(S_zColor, <<Member(S_FCL_A, 2, TRUE)>>)>>,
     <<UnreadableMemberEntry>>, <<NonIntMemberEntry>>,
     <<ColorEntry, BrokenEntry>>}

StubTypelibs ==
    {lead \o <<InterfaceEntry(S_INode, vs, fs)>> :
        lead \in LeadingEntries, vs \in VarLists, fs \in FuncLists}

---------------------------------------------------------------------------
(* The stub generator as a run *)

InitStub ==
    /\ pc = "start"
    /\ typelib \in StubTypelibs
    /\ enums = <<>>
    /\ interfaces = <<>>
    /\ stub_lines = <<>>
    /\ stub_again = <<>>
    /\ ResolverIdle
    /\ GroupIdle
    /\ ConstIdle
    /\ TranslateIdle
    /\ PathIdle

\* main's first pass, a host call raising
FirstPassAborts ==
    /\ pc = "start"
    /\ FirstPassRaises(typelib)
    /\ pc' = "aborted"
    /\ UNCHANGED <<stubVars, resolverVars, groupVars, constVars,
                   translateVars, pathVars>>

\* main's first pass
FirstPass ==
    /\ pc = "start"
    /\ ~FirstPassRaises(typelib)
    /\ enums' = CollectedEnums(typelib)
    /\ pc' = "enums"
    /\ UNCHANGED <<typelib, interfaces, stub_lines, stub_again,
                   resolverVars, groupVars, constVars,
                   translateVars, pathVars>>

\* main's second pass
SecondPass ==
    /\ pc = "enums"
    /\ interfaces' = ExtractedInterfaces(typelib)
    /\ pc' = "interfaces"
    /\ UNCHANGED <<typelib, enums, stub_lines, stub_again,
                   resolverVars, groupVars, constVars,
                   translateVars, pathVars>>

\* generate_stub_file
GenerateStub ==
    /\ pc = "interfaces"
    /\ \E order \in ImportOrders(UsedAliases(interfaces)) :
          stub_lines' = StubLines(interfaces, enums, order)
    /\ pc' = "written"
    /\ UNCHANGED <<typelib, enums, interfaces, stub_again,
                   resolverVars, groupVars, constVars,
                   translateVars, pathVars>>

\* a second run of main over the same type library
RunStubsAgain ==
    /\ pc = "written"
    /\ LET again == ExtractedInterfaces(typelib)
       IN \E order \in ImportOrders(UsedAliases(again)) :
             stub_again' = StubLines(again, CollectedEnums(typelib), order)
    /\ pc' = "written_again"
    /\ UNCHANGED <<typelib, enums, interfaces, stub_lines,
                   resolverVars, groupVars, constVars,
                   translateVars, pathVars>>

NextStub ==
    \/ FirstPassAborts
    \/ FirstPass
    \/ SecondPass
    \/ GenerateStub
    \/ RunStubsAgain

SpecStub == InitStub /\ [][NextStub]_vars

---------------------------------------------------------------------------
(* Inputs of the constants generator: type libraries *)

\* all subsequences of s
RECURSIVE SubLists(_)
SubLists(s) ==
    IF s = <<>> THEN {<<>>}
    ELSE LET shorter == SubLists(SubSeq(s, 1, Len(s) - 1))
         IN shorter \cup {Append(l, s[Len(s)]) : l \in shorter}

ColorEntries ==
    {EnumEntry(S_zColor, ms) :
        ms \in SubLists(<<Member(S_FCL_A, 2, FALSE), Member(S_FPF_B, 1, FALSE),
                          Member(S_FPL_C, 3, FALSE)>>)}

\* zReturnCode missing, with two members, with two members of one value, with
\* only a member the host fails on, or with such a member and one whose value
\* is no int among readable ones
ReturnCodeEntries ==
    {<<>>,
     <<EnumEntry(S_zReturnCode, <<Member(S_FE_FAIL, 0, FALSE),
                                  Member(S_FE_OK, -1, FALSE)>>)>>,
     <<EnumEntry(S_zReturnCode, <<Member(S_FE_OK, 0, FALSE),
                                  Member(S_FE_ERR, 0, FALSE)>>)>>,
     <<EnumEntry(S_zReturnCode, <<Member(S_FE_OK, -1, TRUE)>>)>>,
     <<EnumEntry(S_zReturnCode, <<Member(S_FE_FAIL, 0, FALSE),
                                  Member(S_FE_BAD, 2, TRUE),
                                  NonIntMember(S_FE_FLT, 1),
                                  Member(S_FE_OK, -1, FALSE)>>)>>}

\* zGroupDefinitionType missing, or with members of several secondary groups
GroupDefEntries ==
    {<<>>,
     <<EnumEntry(S_zGroupDefinitionType,
                 <<Member(S_FGD_ELEM_A, 2, FALSE), Member(S_FGD_NODE_B, 1, FALSE),
                   Member(S_FGD_ALL, 0, FALSE), Member(S_FGD_ELEM_2D, 1, FALSE)>>)>>,
     <<EnumEntry(S_zGroupDefinitionType,
                 <<Member(S_FGD_ELEM_B, 1, FALSE), Member(S_FGD_ELEM_A, 1, FALSE),
                   Member(S_FGD_NONE, 0, FALSE), Member(S_FGD_ALL, 0, FALSE)>>)>>,
     <<EnumEntry(S_zGroupDefinitionType,
                 <<Member(S_FGD_ELEM_A, 2, FALSE), Member(S_FGD_2D, 1, FALSE)>>)>>}

\* enumerations no rule of the table names
OtherEntries ==
    {<<>>,
     <<EnumEntry(S_zEnum, <<Member(S_A_FOO, 3, FALSE), Member(S_A_BAR, 1, FALSE)>>)>>,
     <<EnumEntry(S_zEnum, <<Member(S_A_FOO, 3, FALSE), Member(S_B_X, 2, FALSE),
                            Member(S_A_BAR, 3, FALSE)>>)>>,
     <<EnumEntry(S_zEnum, <<Member(S_A_FOO, 3, FALSE), Member(S_PLAIN, 1, FALSE)>>)>>,
     <<EnumEntry(S_zEnum, <<Member(S_A_FOO, 3, FALSE), Member(S_B_X, 2, FALSE),
                            Member(S_PLAIN, 1, FALSE)>>)>>,
     <<EnumEntry(S_zEnum, <<Member(S_A_FOO, 3, FALSE), Member(S_B_X, 2, FALSE)>>),
       EnumEntry(S_zAux, <<Member(S_C_Y, 1, FALSE), Member(S_C_X, 1, FALSE)>>)>>}

TrailingEntries == {<<>>, <<CoclassEntry(S_App)>>, <<BrokenEntry>>}

Reversed(s) == [i \in 1 .. Len(s) |-> s[Len(s) + 1 - i]]

ConstTypelibs ==
    LET forward == {rc \o gd \o <<col>> \o ot :
                       rc \in ReturnCodeEntries, gd \in GroupDefEntries,
                       col \in ColorEntries, ot \in OtherEntries}
    IN {tl \o tr : tl \in forward \cup {Reversed(x) : x \in forward},
                   tr \in TrailingEntries}

---------------------------------------------------------------------------
(* The constants generator as a run *)

InitConst ==
    /\ pc = "load"
    /\ typelib \in ConstTypelibs
    /\ enums = <<>>
    /\ interfaces = <<>>
    /\ stub_lines = <<>>
    /\ stub_again = <<>>
    /\ tlb_constants = <<>>
    /\ tier1_processed = <<>>
    /\ tier1_skipped = <<>>
    /\ const_lines = <<>>
    /\ const_again = <<>>
    /\ ResolverIdle
    /\ GroupIdle
    /\ TranslateIdle
    /\ PathIdle

\* parse_constants_from_tlb, a host call on an entry raising
ParseAborts ==
    /\ pc = "load"
    /\ ParseRaises(typelib)
    /\ pc' = "load_aborted"
    /\ UNCHANGED <<stubVars, constVars, resolverVars, groupVars,
                   translateVars, pathVars>>

\* parse_constants_from_tlb
Parse ==
    /\ pc = "load"
    /\ ~ParseRaises(typelib)
    /\ tlb_constants' = parse_constants_from_tlb(typelib)
    /\ pc' = "parsed"
    /\ UNCHANGED <<tier1_processed, tier1_skipped, const_lines, const_again,
                   stubVars, resolverVars, groupVars,
                   translateVars, pathVars>>

\* generate_constants_file
GenerateConstants ==
    /\ pc = "parsed"
    /\ const_lines' = generate_constants_file(tlb_constants)
    /\ tier1_processed' = Tier1(ALIAS_CONFIG, tlb_constants).processed
    /\ tier1_skipped' = Tier1(ALIAS_CONFIG, tlb_constants).skipped
    /\ pc' = "generated"
    /\ UNCHANGED <<tlb_constants, const_again, stubVars, resolverVars, groupVars,
                   translateVars, pathVars>>

\* a second run of main over the same type library
RunConstantsAgain ==
    /\ pc = "generated"
    /\ const_again' = generate_constants_file(parse_constants_from_tlb(typelib))
    /\ pc' = "generated_again"
    /\ UNCHANGED <<tlb_constants, tier1_processed, tier1_skipped, const_lines,
                   stubVars, resolverVars, groupVars,
                   translateVars, pathVars>>

NextConst ==
    \/ ParseAborts
    \/ Parse
    \/ GenerateConstants
    \/ RunConstantsAgain

SpecConst == InitConst /\ [][NextConst]_vars

---------------------------------------------------------------------------
(* Either generator, run over a type library *)

InitGen == InitStub \/ InitConst

NextGen == NextStub \/ NextConst

SpecGen == InitGen /\ [][NextGen]_vars

---------------------------------------------------------------------------
(* The resolver as a run: a descriptor is handed in, resolve_type returns *)

InitResolve ==
    /\ pc = "resolve"
    /\ typedesc \in ResolverInputs
    /\ tinfo \in TypeInfos
    /\ resolved = NoStr
    /\ GroupIdle
    /\ StubIdle
    /\ ConstIdle
    /\ TranslateIdle
    /\ PathIdle

Resolve ==
    /\ pc = "resolve"
    /\ resolved' = resolve_type(tinfo, typedesc)
    /\ pc' = "resolved"
    /\ UNCHANGED <<typedesc, tinfo, groupVars, stubVars, constVars,
                   translateVars, pathVars>>

NextResolve == Resolve

SpecResolve == InitResolve /\ [][NextResolve]_vars

---------------------------------------------------------------------------
(* femap_path_utils.py *)

\* None where a str is optional: no sequence of characters equals it
PathNone == <<"None">>

\* the truth value Python gives an Optional[str]
Truthy(v) == v # PathNone /\ v # <<>>

\* os.path.exists, Path.exists: true of a file and of a directory
Exists(files, path) == path \in DOMAIN files /\ files[path] # "none"

Whitespace == {" ", "\n", "\t", "\r"}

\* str.strip()
RECURSIVE StripWhitespace(_)
StripWhitespace(str) ==
    IF str = <<>> THEN str
    ELSE IF str[1] \in Whitespace THEN StripWhitespace(Tail(str))
    ELSE IF str[Len(str)] \in Whitespace
         THEN StripWhitespace(SubSeq(str, 1, Len(str) - 1))
    ELSE str

\* the cache file: absent, unreadable (read_text raises) or holding text
NoCacheFile == [state |-> "absent", text |-> <<>>]
UnreadableCache == [state |-> "unreadable", text |-> <<>>]
CacheText(t) == [state |-> "text", text |-> t]

\* the cached text returned without looking for the file
LoadCachedPathUnchecked(cache, files) ==
    IF cache.state = "text" /\ StripWhitespace(cache.text) # <<>>
    THEN StripWhitespace(cache.text)
    ELSE PathNone

_load_cached_path(cache, files) ==
    IF cache.state = "text" /\ StripWhitespace(cache.text) # <<>>
          /\ Exists(files, StripWhitespace(cache.text))
    THEN StripWhitespace(cache.text)
    ELSE PathNone

\* write_text, whose failure is swallowed
_save_cached_path(cache, path, writable) ==
    IF writable THEN CacheText(path) ELSE cache

\* sorted(matches)[-1]
LastSorted(matches) ==
    CHOOSE d \in matches : \A e \in matches : e = d \/ StrLess(e, d)

\* the matches of the first pattern that has any
find_femap_install_dir(matches) ==
    IF \A i \in 1 .. Len(matches) : matches[i] = {} THEN PathNone
    ELSE LastSorted(matches[CHOOSE i \in 1 .. Len(matches) :
                               /\ matches[i] # {}
                               /\ \A j \in 1 .. i - 1 : matches[j] = {}])

\* the dialog: tkinter missing, Tk() raising, the user cancelling or picking
prompt_for_tlb_file(dialog) ==
    IF dialog = "ImportError" THEN PathNone
    ELSE IF dialog = "TclError" THEN EXC
    ELSE IF dialog = "cancel" THEN PathNone
    ELSE S_NewPath

TlbIn(install_dir) == install_dir \o S_SlashFemapTlb

\* steps 1 to 4; PathNone when none of them returns
ResolvedWithoutPrompt(h, cache) ==
    IF Truthy(h.cli_arg) /\ Exists(h.files, h.cli_arg) THEN h.cli_arg
    ELSE IF Truthy(h.env_path) /\ Exists(h.files, h.env_path) THEN h.env_path
    ELSE IF _load_cached_path(cache, h.files) # PathNone
         THEN _load_cached_path(cache, h.files)
    ELSE IF /\ find_femap_install_dir(h.matches) # PathNone
            /\ Exists(h.files, TlbIn(find_femap_install_dir(h.matches)))
         THEN TlbIn(find_femap_install_dir(h.matches))
    ELSE PathNone

\* the value get_tlb_path returns (EXC when the dialog raises)
get_tlb_path(h, cache) ==
    IF ResolvedWithoutPrompt(h, cache) # PathNone THEN ResolvedWithoutPrompt(h, cache)
    ELSE prompt_for_tlb_file(h.dialog)

\* whether the call reaches step 5
Prompts(h, cache) == ResolvedWithoutPrompt(h, cache) = PathNone

\* the cache file after the call
CacheAfter(h, cache) ==
    IF Prompts(h, cache) /\ Truthy(prompt_for_tlb_file(h.dialog))
          /\ prompt_for_tlb_file(h.dialog) # EXC
    THEN _save_cached_path(cache, prompt_for_tlb_file(h.dialog), h.cache_writable)
    ELSE cache

---------------------------------------------------------------------------
(* Inputs of the path resolution: argument, environment, files, user *)

\* the argument with the kind of what it names
CliChoices ==
    {<<PathNone, "none">>, << <<>>, "none" >>}
    \cup {<<S_CliPath, k>> : k \in {"none", "file", "dir"}}

EnvChoices ==
    {<<PathNone, "none">>} \cup {<<S_EnvPath, k>> : k \in {"none", "file", "dir"}}

\* the cache file with the kind of the path it holds
CacheChoices ==
    {<<NoCacheFile, "none">>, <<UnreadableCache, "none">>, <<CacheText(<<>>), "none">>}
    \cup {<<CacheText(<<" ">> \o S_OldPath \o <<"\n">>), k>> : k \in {"none", "file"}}

\* what the two glob patterns match
MatchChoices ==
    {<<{}, {}>>, <<{S_Femap21, S_Femap22}, {}>>, <<{}, {S_Femap86}>>,
     <<{S_Femap21}, {S_Femap86}>>}

InstallDirs == {S_Femap21, S_Femap22, S_Femap86}

DialogChoices ==
    {<<d, TRUE>> : d \in {"ImportError", "TclError", "cancel", "pick"}}
    \cup {<<"pick", FALSE>>}

FilesOf(cli, env, cached, tlbs) ==
    [q \in {S_CliPath, S_EnvPath, S_OldPath, S_NewPath}
              \cup {TlbIn(d) : d \in InstallDirs} |->
        IF q = S_CliPath THEN cli
        ELSE IF q = S_EnvPath THEN env
        ELSE IF q = S_OldPath THEN cached
        ELSE IF q = S_NewPath THEN "file"
        ELSE IF q \in tlbs THEN "file" ELSE "none"]

Hosts ==
    {[cli_arg |-> cli[1], env_path |-> env[1],
      files |-> FilesOf(cli[2], env[2], cached[2], {TlbIn(d) : d \in dirs}),
      matches |-> ms, dialog |-> dlg[1], cache_writable |-> dlg[2],
      cache |-> cached[1]] :
        cli \in CliChoices, env \in EnvChoices, cached \in CacheChoices,
        dirs \in SUBSET InstallDirs, ms \in MatchChoices, dlg \in DialogChoices}

---------------------------------------------------------------------------
(* One call of get_tlb_path *)

InitPath ==
    /\ pc = "path"
    /\ host \in Hosts
    /\ cache_file = host.cache
    /\ tlb_path = NoStr
    /\ prompted = FALSE
    /\ earlier = <<>>
    /\ ResolverIdle
    /\ GroupIdle
    /\ StubIdle
    /\ ConstIdle
    /\ TranslateIdle

GetTlbPath ==
    /\ pc = "path"
    /\ tlb_path' = get_tlb_path(host, cache_file)
    /\ prompted' = Prompts(host, cache_file)
    /\ cache_file' = CacheAfter(host, cache_file)
    /\ pc' = "path_done"
    /\ UNCHANGED <<host, earlier, resolverVars, groupVars, stubVars, constVars,
                   translateVars>>

\* the path the cache file holds, PathNone when it holds none
CachedText(cache) ==
    IF cache.state = "text" THEN StripWhitespace(cache.text) ELSE PathNone

\* the argument and the environment of a later run, with the kind of what
\* they name
LaterCliChoices == {<<PathNone, "none">>, <<S_CliPath, "none">>, <<S_CliPath, "file">>}
LaterEnvChoices == {<<PathNone, "none">>, <<S_EnvPath, "file">>}

\* the files at a later run: those of the argument and of the environment
\* are as that run finds them, the cached one is kept or has been removed
LaterFiles(files, cached, cli, env, kept) ==
    [q \in DOMAIN files |->
        IF q = S_CliPath THEN cli
        ELSE IF q = S_EnvPath THEN env
        ELSE IF q = cached /\ ~kept THEN "none"
        ELSE files[q]]

\* the hosts of a later run: the cache file is the one the run before left;
\* a user cannot pick a file that has been removed
LaterHosts(h, cache) ==
    {[h EXCEPT !.cli_arg = cli[1], !.env_path = env[1],
               !.files = LaterFiles(h.files, CachedText(cache), cli[2], env[2], kept),
               !.dialog = IF h.dialog = "pick" /\ CachedText(cache) = S_NewPath
                             /\ ~kept
                          THEN "cancel" ELSE h.dialog] :
        cli \in LaterCliChoices, env \in LaterEnvChoices, kept \in BOOLEAN}

\* a later run calls get_tlb_path with the cache file the run before left
GetTlbPathAgain ==
    /\ pc = "path_done"
    /\ \E h \in LaterHosts(host, cache_file) :
          /\ host' = h
          /\ tlb_path' = get_tlb_path(h, cache_file)
          /\ prompted' = Prompts(h, cache_file)
          /\ cache_file' = CacheAfter(h, cache_file)
    /\ earlier' = [tlb_path |-> tlb_path, prompted |-> prompted,
                   cache_file |-> cache_file]
    /\ pc' = "path_again"
    /\ UNCHANGED <<resolverVars, groupVars, stubVars, constVars, translateVars>>

NextPath == GetTlbPath \/ GetTlbPathAgain

SpecPath == InitPath /\ [][NextPath]_vars

---------------------------------------------------------------------------
(* translate_type over the type strings the extractor builds *)

TypeName(n) == [kind |-> "name", name |-> n]
TypeTuple(items) == [kind |-> "tuple", items |-> items]

\* resolve_type's string for VT_SAFEARRAY: 'Tuple[{elem_type}, ...]'
TypeArray(elem) == TypeTuple(<<elem, TypeName(S_ThreeDots)>>)

\* the string the extractor builds for a type: a name, or 'Tuple[' with the
\* components joined by ', ' and ']'
RECURSIVE RenderType(_)
RenderType(tree) ==
    IF tree.kind = "name" THEN tree.name
    ELSE S_TupleOpen
         \o Join(S_CommaSp, [i \in 1 .. Len(tree.items) |-> RenderType(tree.items[i])])
         \o S_Close

\* an enumeration with virtual rules, one with a single rule, an interface
\* and a primitive
TypeLeaves == {TypeName(S_zColor), TypeName(S_zReturnCode), TypeName(S_INode),
               TypeName(S_int)}

\* what a composite type holds: names, arrays of a name, pairs of names
TypeComponentTrees ==
    TypeLeaves
    \cup {TypeArray(l) : l \in TypeLeaves}
    \cup {TypeTuple(<<a, b>>) : a \in TypeLeaves, b \in TypeLeaves}

TypeTrees ==
    TypeComponentTrees
    \cup {TypeArray(c) : c \in TypeComponentTrees}
    \cup {TypeTuple(q) : q \in SeqsUpTo(TypeComponentTrees, MaxArity) \ {<<>>}}

InitTranslate ==
    /\ pc = "translate"
    /\ type_tree \in TypeTrees
    /\ translated = NoStr
    /\ ResolverIdle
    /\ GroupIdle
    /\ StubIdle
    /\ ConstIdle
    /\ PathIdle

Translate ==
    /\ pc = "translate"
    /\ translated' = translate_type(RenderType(type_tree))
    /\ pc' = "translated"
    /\ UNCHANGED <<type_tree, resolverVars, groupVars, stubVars, constVars, pathVars>>

NextTranslate == Translate

SpecTranslate == InitTranslate /\ [][NextTranslate]_vars

---------------------------------------------------------------------------
(* Claims about the resolver *)

IsCode(td, c) ==
    \/ td = PyInt(c)
    \/ td = PyTuple(<<PyInt(c)>>)

\* C1: every code of VT_NAMES resolves to exactly its mapped name; every
\* other code (except the wrapper codes 26, 27, 29), None and the empty
\* descriptor resolve to 'Any'; no exception leaves resolve_type.
C1_PrimitiveTable ==
    pc = "resolved" =>
        /\ resolved # EXC
        /\ \A c \in PlainCodes :
              IsCode(typedesc, c) =>
                  /\ c \in DOMAIN VT_NAMES => resolved = VT_NAMES[c]
                  /\ c \notin DOMAIN VT_NAMES => resolved = S_Any
        /\ typedesc \in {PyNone, PyTuple(<<>>)} => resolved = S_Any

C1_Witness ==
    /\ pc = "resolved"
    /\ typedesc = PyTuple(<<PyInt(MaxCode)>>)
    /\ MaxCode \notin DOMAIN VT_NAMES
    /\ resolved = S_Any

IsWrapper(td, code) ==
    /\ td.t = "tuple"
    /\ Len(td.items) = 2
    /\ td.items[1] = PyInt(code)

IsElemDesc(td) ==
    /\ td.t = "tuple"
    /\ Len(td.items) = 3

\* C2: resolve(pointer-to-X) = resolve(X), resolve(array-of-X) =
\* 'Tuple[' + resolve(X) + ', ...]', at every nesting depth, and an element
\* descriptor (type, flags, default) resolves to resolve(type) whatever the
\* flags are.
C2_Compositional ==
    pc = "resolved" =>
        /\ IsWrapper(typedesc, VT_PTR) =>
              resolved = resolve_type(tinfo, typedesc.items[2])
        /\ IsWrapper(typedesc, VT_SAFEARRAY) =>
              resolved = S_TupleOpen \o resolve_type(tinfo, typedesc.items[2])
                             \o S_Ellipsis
        /\ IsElemDesc(typedesc) =>
              resolved = resolve_type(tinfo, typedesc.items[1])

C2_Witness ==
    /\ pc = "resolved"
    /\ typedesc = PyTuple(<<PyInt(VT_PTR),
                            PyTuple(<<PyInt(VT_SAFEARRAY), PyInt(5)>>)>>)
    /\ resolved = S_TupleOpen \o S_float \o S_Ellipsis

\* C3: a user-defined reference whose handle is missing or whose lookup
\* fails resolves to 'int' and no exception leaves resolve_type; a lookup
\* that succeeds resolves to the referenced entry's name.
C3_ReferenceFallback ==
    pc = "resolved" =>
        /\ typedesc \in {PyTuple(<<PyInt(VT_USERDEFINED)>>),
                         PyTuple(<<PyInt(VT_USERDEFINED), PyNone>>)} =>
              resolved = S_int
        /\ \A h \in Hrefs :
              typedesc = PyTuple(<<PyInt(VT_USERDEFINED), PyInt(h)>>) =>
                  /\ tinfo.refs[h].raises => resolved = S_int
                  /\ ~tinfo.refs[h].raises => resolved = tinfo.refs[h].name

C3_Witness ==
    /\ pc = "resolved"
    /\ typedesc = PyTuple(<<PyInt(VT_USERDEFINED), PyInt(1)>>)
    /\ tinfo.refs[1].raises
    /\ resolved = S_int

---------------------------------------------------------------------------
(* Claims about the curated flat grouping *)

S_Line_BAR_1 == <<" "," "," "," ","B","A","R"," ","="," ","1">>
S_Line__1_2 == <<" "," "," "," ","_","1"," ","="," ","2">>
S_Line_FOO_3 == <<" "," "," "," ","F","O","O"," ","="," ","3">>

\* the name a member is claimed to be emitted under: the raw name without
\* the prefix, with a leading underscore before a digit
C4_StrippedName(name, pre) ==
    LET rest == IF StartsWith(name, pre)
                THEN SubSeq(name, Len(pre) + 1, Len(name))
                ELSE name
    IN IF rest # <<>> /\ IsDigit(rest[1]) THEN S_Underscore \o rest ELSE rest

\* body lists every member once, in ascending order of value, each as
\* '    <Alias(name)> = <value>'
C4_EmittedAs(Alias(_)) ==
    /\ Len(body) = Len(const_list)
    /\ \E pi \in Permutations(1 .. Len(const_list)) :
          /\ \A i, j \in 1 .. Len(const_list) :
                i < j => const_list[pi[i]].value <= const_list[pi[j]].value
          /\ \A i \in 1 .. Len(const_list) :
                body[i] = S_Indent4 \o Alias(const_list[pi[i]].name) \o S_Eq
                              \o IntToStr(const_list[pi[i]].value)

C4_Example ==
    const_list = <<ConstantInfo(S_A_FOO, 3, S_zEnum),
                   ConstantInfo(S_A_BAR, 1, S_zEnum),
                   ConstantInfo(S_A_1, 2, S_zEnum)>>

\* C4 as stated: every member of a flat grouping is emitted in ascending
\* order of value under its raw name with the strip prefix removed, a
\* remainder starting with a digit gaining a leading underscore.
C4_FlatAsStated ==
    pc = "flat_done" =>
        LET Alias(name) == C4_StrippedName(name, prefix)
        IN C4_EmittedAs(Alias)

\* C4 amended: as stated, except that a member whose name is the strip
\* prefix alone is emitted under its full raw name; {A_FOO=3, A_BAR=1,
\* A_1=2} with prefix 'A_' is emitted as BAR=1, _1=2, FOO=3.
C4_FlatAmended ==
    pc = "flat_done" =>
        LET Alias(name) == IF name = prefix THEN name
                           ELSE C4_StrippedName(name, prefix)
        IN /\ C4_EmittedAs(Alias)
           /\ C4_Example =>
                 body = <<S_Line_BAR_1, S_Line__1_2, S_Line_FOO_3>>

C4_Witness ==
    /\ pc = "flat_done"
    /\ C4_Example
    /\ body = <<S_Line_BAR_1, S_Line__1_2, S_Line_FOO_3>>

---------------------------------------------------------------------------
(* Claims about the interface extractor and the stub emitter *)

\* the dispatch entry of the library and, after the second pass, its descriptor
TheEntry == typelib[Len(typelib)]

EndsWith(s, p) ==
    Len(s) >= Len(p) /\ SubSeq(s, Len(s) - Len(p) + 1, Len(s)) = p

Lines(doc) == {doc[i] : i \in 1 .. Len(doc)}

CountStarting(doc, pre) == Cardinality({i \in 1 .. Len(doc) : StartsWith(doc[i], pre)})

Extracted == pc \in {"interfaces", "written", "written_again"}

\* the aliases the rules of one source enumeration declare, in table order
C5_DeclaredAliases(base) ==
    LET OfBase(r) == r.key = base \/ StartsWith(r.key, base \o S_Colon)
        rules == SelectSeq(ALIAS_CONFIG, OfBase)
    IN [i \in 1 .. Len(rules) |-> rules[i].alias]

C5_HasVirtualRules(base) ==
    \E i \in 1 .. Len(ALIAS_CONFIG) : StartsWith(ALIAS_CONFIG[i].key, base \o S_Colon)

\* C5: the emitted form of a source enumeration that has virtual rules is the
\* union of all aliases declared for it, joined by ' | ' in the order the
\* rules are declared; checked on every simple property and every callable
\* of the written stub whose type is such an enumeration.
C5_UnionInDeclarationOrder ==
    pc = "written" =>
        \A i \in 1 .. Len(interfaces) :
            /\ \A j \in 1 .. Len(interfaces[i].properties) :
                  LET p == interfaces[i].properties[j]
                  IN C5_HasVirtualRules(p.type) =>
                        S_Def \o p.name \o S_SelfArrow
                            \o Join(S_Bar, C5_DeclaredAliases(p.type)) \o S_Dots
                        \in Lines(stub_lines)
            /\ \A j \in 1 .. Len(interfaces[i].methods) :
                  LET m == interfaces[i].methods[j]
                  IN C5_HasVirtualRules(m.return_type) =>
                        \E l \in Lines(stub_lines) :
                            /\ StartsWith(l, S_Def \o m.name \o S_OpenParen)
                            /\ EndsWith(l, S_CloseArrow
                                           \o Join(S_Bar, C5_DeclaredAliases(m.return_type))
                                           \o S_Dots)

\* a stub was written for an interface with a zColor property: three aliases
C5_Witness ==
    /\ pc = "written"
    /\ \E j \in 1 .. Len(interfaces[1].properties) :
          /\ interfaces[1].properties[j].type = S_zColor
          /\ Len(C5_DeclaredAliases(S_zColor)) = 3
          /\ S_Def \o interfaces[1].properties[j].name \o S_SelfArrow
                 \o S_Color \o S_Bar \o S_BrushPattern \o S_Bar \o S_PenLineStyle
                 \o S_Dots \in Lines(stub_lines)

IsAccessor(f, kinds, name) ==
    f.fails = "no" /\ f.invkind \in kinds /\ f.names # <<>> /\ f.names[1] = name

Getters(name) ==
    {k \in 1 .. Len(TheEntry.funcs) :
        IsAccessor(TheEntry.funcs[k], {INVOKE_PROPERTYGET}, name)}

Setters(name) ==
    {k \in 1 .. Len(TheEntry.funcs) :
        IsAccessor(TheEntry.funcs[k], {INVOKE_PROPERTYPUT, INVOKE_PROPERTYPUTREF}, name)}

MethodsNamed(name) ==
    {j \in 1 .. Len(interfaces[1].methods) : interfaces[1].methods[j].name = name}

\* an indexed getter with n >= 1 index parameters and a setter taking the
\* same index parameters plus the value, under one name
C6_IndexedPair(name) ==
    /\ Cardinality(Getters(name)) = 1
    /\ Cardinality(Setters(name)) = 1
    /\ \E g \in Getters(name), s \in Setters(name) :
          /\ Len(TheEntry.funcs[g].args) >= 1
          /\ Len(TheEntry.funcs[s].args) = Len(TheEntry.funcs[g].args) + 1

C6_OnlyGetter(name) ==
    /\ Cardinality(Getters(name)) = 1
    /\ Setters(name) = {}
    /\ \E g \in Getters(name) : Len(TheEntry.funcs[g].args) >= 1

C6_OnlySetter(name) ==
    /\ Getters(name) = {}
    /\ Cardinality(Setters(name)) = 1
    /\ \E s \in Setters(name) : Len(TheEntry.funcs[s].args) >= 2

C6_NoAttribute(name) ==
    /\ ~DictHas(interfaces[1].properties, name)
    /\ pc = "written" =>
          /\ CountStarting(stub_lines, S_Def \o name \o S_SelfArrow) = 0
          /\ S_IndentAt \o name \o S_DotSetter \notin Lines(stub_lines)

C6_Callables(name, reader, writer) ==
    /\ Cardinality(MethodsNamed(name)) = reader
    /\ Cardinality(MethodsNamed(S_Set \o name)) = writer
    /\ pc = "written" =>
          /\ CountStarting(stub_lines, S_Def \o name \o S_OpenParen \o S_self \o S_CommaSp)
                = reader
          /\ CountStarting(stub_lines, S_Def \o S_Set \o name \o S_OpenParen
                                       \o S_self \o S_CommaSp) = writer

PlainMethods ==
    {k \in 1 .. Len(TheEntry.funcs) :
        /\ TheEntry.funcs[k].fails = "no"
        /\ TheEntry.funcs[k].invkind = INVOKE_FUNC
        /\ TheEntry.funcs[k].names # <<>>}

\* bit 1 of the flag word of a parameter descriptor
FlaggedOutput(arg) == arg.items[2].v % 4 >= 2

FlaggedTypes(f) ==
    LET outs == SelectSeq(f.args, FlaggedOutput)
    IN [k \in 1 .. Len(outs) |-> resolve_type(TheEntry.tinfo, outs[k].items[1])]

DescriptorOf(f) ==
    interfaces[1].methods[CHOOSE j \in 1 .. Len(interfaces[1].methods) :
                              interfaces[1].methods[j].name = f.names[1]]

\* C7: a method without output parameters returns its declared result type;
\* with output parameters it returns the composite 'Tuple[...]' listing the
\* declared result type and then the types of the output parameters in
\* declaration order.
C7_CompositeReturn ==
    Extracted =>
        \A k \in PlainMethods :
            LET f == TheEntry.funcs[k]
                declared == resolve_type(TheEntry.tinfo, f.rettype.items[1])
            IN DescriptorOf(f).return_type =
                  IF FlaggedTypes(f) = <<>> THEN declared
                  ELSE S_TupleOpen
                         \o Join(S_CommaSp, <<declared>> \o FlaggedTypes(f))
                         \o S_Close

\* a method with two output parameters of different types
C7_Witness ==
    /\ pc = "interfaces"
    /\ \E k \in PlainMethods :
          /\ FlaggedTypes(TheEntry.funcs[k]) = <<S_zColor, S_int>>
          /\ DescriptorOf(TheEntry.funcs[k]).return_type =
                S_TupleOpen \o S_zReturnCode \o S_CommaSp \o S_zColor
                    \o S_CommaSp \o S_int \o S_Close

ParamNames(m) == {m.params[j][1] : j \in 1 .. Len(m.params)}

\* C8 as stated: an output parameter is left out of the parameter list of
\* the method descriptor, and so of the emitted declaration.
C8_OutputsExcluded ==
    Extracted =>
        \A k \in PlainMethods :
            LET f == TheEntry.funcs[k]
            IN \A a \in 1 .. Len(f.args) :
                  FlaggedOutput(f.args[a]) =>
                      ParamName(f.names, a - 1) \notin ParamNames(DescriptorOf(f))

\* the emitted form of parameter a of method f
C8_Emitted(f, a) ==
    SafeName(ParamName(f.names, a - 1)) \o S_ColonSp
        \o translate_type(resolve_type(TheEntry.tinfo, f.args[a].items[1]))
        \o (IF FlaggedOutput(f.args[a]) THEN S_EqDots ELSE <<>>)

\* C8 (amended): every parameter of a method, output or not, stays in the
\* parameter list of the descriptor in declaration order; an output
\* parameter is marked optional there, is emitted with the default '= ...',
\* and its type is also listed in the composite return type.
C8_OutputsKeptOptional ==
    Extracted =>
        \A k \in PlainMethods :
            LET f == TheEntry.funcs[k]
                m == DescriptorOf(f)
            IN /\ Len(m.params) = Len(f.args)
               /\ \A a \in 1 .. Len(f.args) :
                     /\ m.params[a][1] = ParamName(f.names, a - 1)
                     /\ m.params[a][2] = resolve_type(TheEntry.tinfo, f.args[a].items[1])
                     /\ m.params[a][3] = FlaggedOutput(f.args[a])
               /\ FlaggedTypes(f) # <<>> =>
                     m.return_type =
                        S_TupleOpen
                          \o Join(S_CommaSp,
                                  <<resolve_type(TheEntry.tinfo, f.rettype.items[1])>>
                                      \o FlaggedTypes(f))
                          \o S_Close
               /\ pc = "written" =>
                     \E l \in Lines(stub_lines) :
                         StartsWith(l, S_Def \o m.name \o S_OpenParen
                                       \o Join(S_CommaSp,
                                               <<S_self>> \o [a \in 1 .. Len(f.args) |->
                                                                 C8_Emitted(f, a)])
                                       \o S_CloseArrow)

\* a written stub of a method with an input and an output parameter
C8_Witness ==
    /\ pc = "written"
    /\ \E k \in PlainMethods :
          LET f == TheEntry.funcs[k]
          IN /\ Len(f.args) = 2
             /\ ~FlaggedOutput(f.args[1])
             /\ FlaggedOutput(f.args[2])
             /\ ParamName(f.names, 1) \in ParamNames(DescriptorOf(f))
             /\ DescriptorOf(f).params[2][3]

---------------------------------------------------------------------------
(* Claims about the two generated documents *)

C9_WitnessConstants ==
    /\ pc = "generated_again"
    /\ const_again = const_lines
    /\ Len(tier1_processed) >= 2
    /\ S_T2H3 \in Lines(const_again)

RuleEnum(rule) ==
    IF \E i \in 1 .. Len(rule.key) : rule.key[i] = ":"
    THEN SubSeq(rule.key, 1, (CHOOSE i \in 1 .. Len(rule.key) : rule.key[i] = ":") - 1)
    ELSE rule.key

RuleIsVirtual(rule) == RuleEnum(rule) # rule.key

\* the members of the snapshot a rule selects: those of its enumeration, for
\* a virtual rule only those whose name starts with the prefix after the ':'
RuleSelection(rule) ==
    IF ~DictHas(tlb_constants, RuleEnum(rule)) THEN <<>>
    ELSE IF RuleIsVirtual(rule)
    THEN SelectSeq(DictGet(tlb_constants, RuleEnum(rule)).consts,
                   LAMBDA c : StartsWith(RuleEnum(rule) \o S_Colon \o c.name, rule.key))
    ELSE DictGet(tlb_constants, RuleEnum(rule)).consts

\* the rule names an enumeration absent from the snapshot, or its filter
\* prefix selects no member
C10_Unmatched(rule) ==
    \/ ~DictHas(tlb_constants, RuleEnum(rule))
    \/ RuleIsVirtual(rule) /\ RuleSelection(rule) = <<>>

ClassLine(rule) ==
    S_Class \o rule.alias \o (IF rule.nested THEN S_Colon ELSE S_IntEnumColon)

ListedAsSkipped(rule) ==
    /\ \E i \in 1 .. Len(tier1_skipped) : tier1_skipped[i] = rule.key
    /\ \E i, j \in 1 .. Len(const_lines) :
          /\ i < j
          /\ StartsWith(const_lines[i], S_SkippedOpen)
          /\ const_lines[j] = S_Hash3 \o rule.key

ListedAsProcessed(rule) ==
    \E i \in 1 .. Len(tier1_processed) : tier1_processed[i][1] = rule.key

\* C10: a rule whose enumeration is absent from the snapshot, or whose filter
\* prefix selects no member, is listed in the skipped part of the summary and
\* no class is emitted for it; generation goes on, and every other rule gets
\* its class emitted.
C10_SkipAndContinue ==
    pc = "generated" =>
        \A r \in 1 .. Len(ALIAS_CONFIG) :
            LET rule == ALIAS_CONFIG[r]
            IN IF C10_Unmatched(rule)
               THEN /\ ListedAsSkipped(rule)
                    /\ ~ListedAsProcessed(rule)
                    /\ ClassLine(rule) \notin Lines(const_lines)
               ELSE /\ ListedAsProcessed(rule)
                    /\ \A i \in 1 .. Len(tier1_skipped) : tier1_skipped[i] # rule.key
                    /\ ClassLine(rule) \in Lines(const_lines)

\* zReturnCode is absent and the filter of zColor:FPF_ selects nothing, and
\* the later rule zColor:FPL_ is emitted
C10_Witness ==
    /\ pc = "generated"
    /\ ~DictHas(tlb_constants, S_zReturnCode)
    /\ DictHas(tlb_constants, S_zColor)
    /\ tier1_skipped = <<S_zReturnCode, S_zCSysType, S_zColor_FPF_>>
    /\ S_Class \o S_PenLineStyle \o S_IntEnumColon \in Lines(const_lines)
    /\ S_Class \o S_BrushPattern \o S_IntEnumColon \notin Lines(const_lines)

---------------------------------------------------------------------------
(* The order of the groupings in the constants document *)

Generated == pc \in {"generated", "generated_again"}

\* the index of the first line equal to l, 0 when there is none
LineIndex(doc, l) ==
    IF l \in Lines(doc) THEN CHOOSE i \in 1 .. Len(doc) :
                                /\ doc[i] = l
                                /\ \A j \in 1 .. i - 1 : doc[j] # l
    ELSE 0

\* the lines at column 0 that open a class, in document order
TopClassLines(doc, from, to) ==
    SelectSeq(SubSeq(doc, from, to), LAMBDA l : StartsWith(l, S_Class))

\* where Tier 1 ends: at the Tier 2 title, or at the summary without Tier 2
Tier1End(doc) ==
    IF S_T2H3 \in Lines(doc) THEN LineIndex(doc, S_T2H3)
    ELSE LineIndex(doc, S_SummaryTitle)

\* the class lines of the rules that are not skipped, in table order
C11_ExpectedTier1 ==
    LET kept == SelectSeq(ALIAS_CONFIG, LAMBDA rule : ~C10_Unmatched(rule))
    IN [i \in 1 .. Len(kept) |-> ClassLine(kept[i])]

\* the raw name a Tier 2 class line carries
Tier2ClassName(l) ==
    IF EndsWith(l, S_IntEnumColon)
    THEN SubSeq(l, Len(S_Class) + 1, Len(l) - Len(S_IntEnumColon))
    ELSE SubSeq(l, Len(S_Class) + 1, Len(l) - 1)

\* C11: the class lines before the Tier 2 title are those of the rules that
\* are not skipped, one per rule in the order of the table; the class lines
\* between the Tier 2 title and the summary carry raw enumeration names in
\* strictly ascending lexicographic order; the summary follows both and no
\* class comes after it.
C11_GroupingOrder ==
    Generated =>
        LET doc == const_lines
            t1end == Tier1End(doc)
            sum == LineIndex(doc, S_SummaryTitle)
            tier2 == TopClassLines(doc, t1end, sum)
        IN /\ sum > 0 /\ t1end > 0 /\ t1end <= sum
           /\ TopClassLines(doc, 1, t1end) = C11_ExpectedTier1
           /\ \A i, j \in 1 .. Len(tier2) :
                  i < j => StrLess(Tier2ClassName(tier2[i]), Tier2ClassName(tier2[j]))
           /\ TopClassLines(doc, sum, Len(doc)) = <<>>

\* two rules are emitted in table order although their aliases descend
\* alphabetically, and two uncurated enumerations the library declares in
\* descending order are emitted ascending
C11_Witness ==
    /\ pc = "generated"
    /\ TopClassLines(const_lines, 1, Tier1End(const_lines))
         = <<S_Class \o S_ReturnCode \o S_IntEnumColon,
             S_Class \o S_GroupDef \o S_Colon,
             S_Class \o S_Color \o S_IntEnumColon,
             S_Class \o S_BrushPattern \o S_IntEnumColon>>
    /\ \E i, j \in 1 .. Len(typelib) :
          i < j /\ typelib[i].name = S_zEnum /\ typelib[j].name = S_zAux
    /\ TopClassLines(const_lines, Tier1End(const_lines), Len(const_lines))
         = <<S_Class \o S_zAux \o S_IntEnumColon, S_Class \o S_zEnum \o S_Colon>>

---------------------------------------------------------------------------
(* Every enumeration in exactly one tier *)

\* some rule of the table selects members of the enumeration: all of them,
\* or those its filter prefix keeps
C12_Matched(enum_name) ==
    \E r \in 1 .. Len(ALIAS_CONFIG) :
        /\ RuleEnum(ALIAS_CONFIG[r]) = enum_name
        /\ RuleSelection(ALIAS_CONFIG[r]) # <<>>

\* a class of a rule of this enumeration stands in the Tier 1 part
C12_InTier1(enum_name) ==
    \E r \in 1 .. Len(ALIAS_CONFIG) :
        /\ RuleEnum(ALIAS_CONFIG[r]) = enum_name
        /\ \E i \in 1 .. Tier1End(const_lines) :
              const_lines[i] = ClassLine(ALIAS_CONFIG[r])

\* a class of the raw name stands in the Tier 2 part
C12_InTier2(enum_name) ==
    \E i \in Tier1End(const_lines) .. LineIndex(const_lines, S_SummaryTitle) :
        const_lines[i] \in {S_Class \o enum_name \o S_IntEnumColon,
                            S_Class \o enum_name \o S_Colon}

\* C12: every enumeration of the snapshot (each has at least one member) is
\* rendered in Tier 1 and not in Tier 2 when some rule selects members of it,
\* and in Tier 2 and not in Tier 1 otherwise.
C12_ExactlyOneTier ==
    Generated =>
        \A e \in 1 .. Len(tlb_constants) :
            LET enum_name == tlb_constants[e].name
            IN /\ tlb_constants[e].consts # <<>>
               /\ IF C12_Matched(enum_name)
                  THEN C12_InTier1(enum_name) /\ ~C12_InTier2(enum_name)
                  ELSE C12_InTier2(enum_name) /\ ~C12_InTier1(enum_name)

\* zColor holds one member, which only its primary rule and the FPF_ rule
\* select, next to an enumeration no rule names
C12_Witness ==
    /\ pc = "generated"
    /\ DictHas(tlb_constants, S_zColor)
    /\ Len(DictGet(tlb_constants, S_zColor).consts) = 1
    /\ DictGet(tlb_constants, S_zColor).consts[1].name = S_FPF_B
    /\ DictHas(tlb_constants, S_zEnum)
    /\ C12_InTier1(S_zColor)
    /\ C12_InTier2(S_zEnum)

---------------------------------------------------------------------------
(* Auto-grouping of the enumerations no rule names *)

HasUnderscore(name) == \E i \in 1 .. Len(name) : name[i] = "_"

\* the text before the first underscore of a name that has one
TextBeforeUnderscore(name) ==
    SubSeq(name, 1, (CHOOSE i \in 1 .. Len(name) :
                        name[i] = "_" /\ \A j \in 1 .. i - 1 : name[j] # "_") - 1)

C13_Prefixes(consts) ==
    {TextBeforeUnderscore(consts[i].name) :
        i \in {k \in 1 .. Len(consts) : HasUnderscore(consts[k].name)}}

C13_Uncurated ==
    {e \in 1 .. Len(tlb_constants) :
        \A r \in 1 .. Len(ALIAS_CONFIG) :
            RuleEnum(ALIAS_CONFIG[r]) # tlb_constants[e].name}

\* the lines of one top-level class: from its class line up to the next line
\* at column 0 that opens a class or a comment
SectionOf(doc, first) ==
    LET ends == {i \in first + 1 .. Len(doc) :
                    StartsWith(doc[i], S_Class) \/ StartsWith(doc[i], S_Hash)}
        last == IF ends = {} THEN Len(doc)
                ELSE (CHOOSE i \in ends : \A j \in ends : i <= j) - 1
    IN SubSeq(doc, first, last)

\* the lines of one nested class of a section: from its class line up to the
\* next nested class line
GroupOf(section, first) ==
    LET ends == {i \in first + 1 .. Len(section) : StartsWith(section[i], S_IndentClass)}
        last == IF ends = {} THEN Len(section)
                ELSE (CHOOSE i \in ends : \A j \in ends : i <= j) - 1
    IN SubSeq(section, first, last)

RawLine(indent, c) == indent \o c.name \o S_Eq \o IntToStr(c.value)

\* the enumeration is one IntEnum class whose members carry their raw names
C13_EmittedFlat(enum) ==
    LET head == S_Class \o enum.name \o S_IntEnumColon
        section == SectionOf(const_lines, LineIndex(const_lines, head))
    IN /\ head \in Lines(const_lines)
       /\ CountStarting(section, S_IndentClass) = 0
       /\ CountStarting(section, S_Indent4) = Len(enum.consts) + 1
       /\ \A i \in 1 .. Len(enum.consts) :
              RawLine(S_Indent4, enum.consts[i]) \in Lines(section)

\* the enumeration is a plain class holding one IntEnum class per prefix,
\* every member under the class of its prefix with its raw name
C13_EmittedNested(enum) ==
    LET head == S_Class \o enum.name \o S_Colon
        section == SectionOf(const_lines, LineIndex(const_lines, head))
    IN /\ head \in Lines(const_lines)
       /\ CountStarting(section, S_IndentClass) = Cardinality(C13_Prefixes(enum.consts))
       /\ CountStarting(section, S_Indent8) = Cardinality(C13_Prefixes(enum.consts))
                                                + Len(enum.consts)
       /\ \A i \in 1 .. Len(enum.consts) :
              LET group == S_IndentClass \o TextBeforeUnderscore(enum.consts[i].name)
                               \o S_IntEnumColon
              IN /\ HasUnderscore(enum.consts[i].name)
                 /\ group \in Lines(section)
                 /\ RawLine(S_Indent8, enum.consts[i])
                        \in Lines(GroupOf(section, LineIndex(section, group)))

\* the statement as the specification words it: nested as soon as the
\* members show more than one distinct prefix
C13_NestedOnSeveralPrefixes ==
    Generated =>
        \A e \in C13_Uncurated :
            IF Cardinality(C13_Prefixes(tlb_constants[e].consts)) > 1
            THEN C13_EmittedNested(tlb_constants[e])
            ELSE C13_EmittedFlat(tlb_constants[e])

\* C13: an enumeration no rule names is emitted as one nested class per
\* prefix when its members show more than one distinct prefix and every
\* member has an underscore; it is emitted flat otherwise, that is with one
\* prefix, with none, or with a member that has no underscore; in both
\* shapes every member is emitted once under its raw name.
C13_NestedOnSeveralPrefixesUnmixed ==
    Generated =>
        \A e \in C13_Uncurated :
            IF /\ Cardinality(C13_Prefixes(tlb_constants[e].consts)) > 1
               /\ \A i \in 1 .. Len(tlb_constants[e].consts) :
                      HasUnderscore(tlb_constants[e].consts[i].name)
            THEN C13_EmittedNested(tlb_constants[e])
            ELSE C13_EmittedFlat(tlb_constants[e])

\* A_FOO, B_X and PLAIN: two prefixes and a member without underscore, flat
C13_Witness ==
    /\ pc = "generated"
    /\ DictHas(tlb_constants, S_zEnum)
    /\ Cardinality(C13_Prefixes(DictGet(tlb_constants, S_zEnum).consts)) = 2
    /\ \E i \in 1 .. Len(DictGet(tlb_constants, S_zEnum).consts) :
          DictGet(tlb_constants, S_zEnum).consts[i].name = S_PLAIN
    /\ C13_EmittedFlat(DictGet(tlb_constants, S_zEnum))

\* A_FOO, B_X and A_BAR: two prefixes, nested
C13_WitnessNested ==
    /\ pc = "generated"
    /\ DictHas(tlb_constants, S_zEnum)
    /\ Len(DictGet(tlb_constants, S_zEnum).consts) = 3
    /\ C13_EmittedNested(DictGet(tlb_constants, S_zEnum))

---------------------------------------------------------------------------
(* The import line of the stub document *)

Written == pc \in {"written", "written_again"}

TypeDelimiters == {"[", "]", ",", " ", "|"}

\* the names a type string is made of: its maximal runs of characters that
\* are no bracket, comma, blank or bar
TypeComponents(t) ==
    {SubSeq(t, q[1], q[2]) :
        q \in {r \in (1 .. Len(t)) \X (1 .. Len(t)) :
                  /\ r[1] <= r[2]
                  /\ \A x \in r[1] .. r[2] : t[x] \notin TypeDelimiters
                  /\ r[1] = 1 \/ t[r[1] - 1] \in TypeDelimiters
                  /\ r[2] = Len(t) \/ t[r[2] + 1] \in TypeDelimiters}}

\* the translated types of the properties, parameters and returns emitted
C14_EmittedTypes ==
    UNION {
        {translate_type(interfaces[i].properties[j].type) :
            j \in 1 .. Len(interfaces[i].properties)}
        \cup {translate_type(interfaces[i].methods[j].return_type) :
                 j \in 1 .. Len(interfaces[i].methods)}
        \cup UNION {{translate_type(interfaces[i].methods[j].params[k][2]) :
                        k \in 1 .. Len(interfaces[i].methods[j].params)} :
                    j \in 1 .. Len(interfaces[i].methods)}
        : i \in 1 .. Len(interfaces)}

\* the aliases that are a type or a component of an emitted type
C14_Referenced ==
    {a \in TrackedAliases : \E t \in C14_EmittedTypes : a \in TypeComponents(t)}

C14_ImportLine == stub_lines[Len(StubHeader) + 1]

\* C14: the import line of the stub document names exactly the aliases that
\* are a type, or a component of a union or composite type, of some
\* translated property, parameter or return type, and the line is empty when
\* there is none.
C14_ImportsExactlyReferenced ==
    Written => C14_ImportLine = ImportLine(SortedStrings(C14_Referenced))

\* a property typed by the interface ICSys and no type naming an alias: the
\* import line lists CSys
C14_Witness ==
    /\ pc = "written"
    /\ \E i \in 1 .. Len(interfaces) : \E j \in 1 .. Len(interfaces[i].properties) :
          interfaces[i].properties[j].type = S_ICSys
    /\ C14_Referenced = {}
    /\ C14_ImportLine = S_ImportFrom \o S_CSys

---------------------------------------------------------------------------
(* Reserved words among parameter names *)

\* the parameter names of a declaration line: each run of characters between
\* a blank and a ': ' inside the parentheses
DeclaredNames(line) ==
    LET close == CHOOSE c \in 1 .. Len(line) :
                     line[c] = ")" /\ \A x \in 1 .. c - 1 : line[x] # ")"
        marks == {k \in 2 .. close : line[k] = ":" /\ line[k + 1] = " "}
        StartOf(k) == 1 + CHOOSE b \in 1 .. k - 1 :
                            /\ line[b] = " "
                            /\ \A x \in b + 1 .. k - 1 : line[x] # " "
        Nth(n) == CHOOSE k \in marks : Cardinality({x \in marks : x < k}) = n - 1
    IN [n \in 1 .. Cardinality(marks) |-> SubSeq(line, StartOf(Nth(n)), Nth(n) - 1)]

C15_Expected(method) ==
    [k \in 1 .. Len(method.params) |->
        IF method.params[k][1] \in {S_type, S_id, S_list, S_set, S_from, S_import,
                                    S_class, S_in, S_is, S_not, S_and, S_or}
        THEN method.params[k][1] \o <<"_">>
        ELSE method.params[k][1]]

C15_Declarations(method) ==
    {l \in Lines(stub_lines) : StartsWith(l, S_Def \o method.name \o S_OpenParen \o S_self)
                               /\ EndsWith(l, S_Dots)
                               /\ Len(DeclaredNames(l)) = Len(method.params)}

\* C15: in the declaration of every callable a parameter named by a reserved
\* word carries the suffix '_', every other parameter keeps its name, and
\* parameters whose metadata names differ have different names in the
\* declaration.
C15_ReservedDisambiguated ==
    Written =>
        \A i \in 1 .. Len(interfaces) : \A j \in 1 .. Len(interfaces[i].methods) :
            LET method == interfaces[i].methods[j]
            IN \E l \in C15_Declarations(method) :
                  /\ DeclaredNames(l) = C15_Expected(method)
                  /\ \A a, b \in 1 .. Len(method.params) :
                         method.params[a][1] # method.params[b][1]
                             => DeclaredNames(l)[a] # DeclaredNames(l)[b]

\* Move(id, id_): both parameters are declared as id_
C15_Witness ==
    /\ pc = "written"
    /\ \E i \in 1 .. Len(interfaces) : \E j \in 1 .. Len(interfaces[i].methods) :
          /\ Len(interfaces[i].methods[j].params) = 2
          /\ interfaces[i].methods[j].params[1][1] = S_id
          /\ interfaces[i].methods[j].params[2][1] = S_id_
          /\ \E l \in C15_Declarations(interfaces[i].methods[j]) :
                DeclaredNames(l) = <<S_id_, S_id_>>

\* the part of C15 the code keeps: the suffix rule, name by name
C15_SuffixRule ==
    Written =>
        \A i \in 1 .. Len(interfaces) : \A j \in 1 .. Len(interfaces[i].methods) :
            \E l \in C15_Declarations(interfaces[i].methods[j]) :
                DeclaredNames(l) = C15_Expected(interfaces[i].methods[j])

---------------------------------------------------------------------------
(* Translation of composite types *)

\* what the table says of one raw name: the aliases its rules declare joined
\* by ' | ', or the name itself when no rule names it
C16_LeafTranslation(n) ==
    IF C5_DeclaredAliases(n) # <<>> THEN Join(S_Bar, C5_DeclaredAliases(n)) ELSE n

\* the tree with every name replaced by its translation
RECURSIVE C16_LeafWise(_)
C16_LeafWise(tree) ==
    IF tree.kind = "name" THEN TypeName(C16_LeafTranslation(tree.name))
    ELSE TypeTuple([i \in 1 .. Len(tree.items) |-> C16_LeafWise(tree.items[i])])

\* C16: the translation of a composite type is the composite type of the
\* translations of its components, in the same number, order and nesting
\* at every depth; a name no rule of the table names is returned unchanged.
C16_TranslatesLeafWise ==
    pc = "translated" =>
        /\ translated = RenderType(C16_LeafWise(type_tree))
        /\ type_tree.kind = "name" /\ C5_DeclaredAliases(type_tree.name) = <<>>
               => translated = type_tree.name

\* 'Tuple[Tuple[zColor, ...], Tuple[zReturnCode, INode]]' is translated
C16_Witness ==
    /\ pc = "translated"
    /\ type_tree = TypeTuple(<<TypeArray(TypeName(S_zColor)),
                               TypeTuple(<<TypeName(S_zReturnCode),
                                           TypeName(S_INode)>>)>>)
    /\ translated = S_TupleOpen \o S_TupleOpen \o S_Color \o S_Bar \o S_BrushPattern
                        \o S_Bar \o S_PenLineStyle \o S_CommaSp \o S_ThreeDots
                        \o S_Close \o S_CommaSp \o S_TupleOpen \o S_ReturnCode
                        \o S_CommaSp \o S_INode \o S_Close \o S_Close

---------------------------------------------------------------------------
(* Priority of the sources of the type-library path *)

IsFile(path) == path \in DOMAIN host.files /\ host.files[path] = "file"
IsPresent(path) == path \in DOMAIN host.files /\ host.files[path] # "none"

C17_Named(v) == v # PathNone /\ v # <<>>

\* the path the cache file held when the call started
C17_CachedPath ==
    IF host.cache.state = "text" THEN StripWhitespace(host.cache.text) ELSE <<>>

\* the directory auto-detection settles on, <<>> when no pattern matches
C17_InstallDir ==
    LET hits == {i \in 1 .. Len(host.matches) : host.matches[i] # {}}
    IN IF hits = {} THEN <<>>
       ELSE LET first == CHOOSE i \in hits : \A j \in hits : i <= j
            IN CHOOSE d \in host.matches[first] :
                  \A e \in host.matches[first] : ~StrLess(d, e)

\* the outcome of the five steps in order, Valid telling when an argument or
\* environment path counts
C17_ByPriority(Valid(_)) ==
    IF C17_Named(host.cli_arg) /\ Valid(host.cli_arg) THEN host.cli_arg
    ELSE IF C17_Named(host.env_path) /\ Valid(host.env_path) THEN host.env_path
    ELSE IF C17_CachedPath # <<>> /\ IsPresent(C17_CachedPath) THEN C17_CachedPath
    ELSE IF C17_InstallDir # <<>> /\ IsPresent(C17_InstallDir \o S_SlashFemapTlb)
         THEN C17_InstallDir \o S_SlashFemapTlb
    ELSE IF host.dialog = "pick" THEN S_NewPath
    ELSE PathNone

\* C17: get_tlb_path returns the command-line argument if it names an
\* existing file, else the FEMAP_TLB_PATH value if it names an existing file,
\* else the cached path if it exists, else femap.tlb of the auto-detected
\* installation directory if it exists, else the path picked in the dialog,
\* and None only when all five fail; an argument naming a missing file falls
\* through to the later steps.
C17_StrictPriority ==
    pc = "path_done" /\ tlb_path # EXC => tlb_path = C17_ByPriority(IsFile)

\* the argument names a directory and FEMAP_TLB_PATH names a file: the
\* directory is returned
C17_Witness ==
    /\ pc = "path_done"
    /\ host.cli_arg = S_CliPath /\ host.files[S_CliPath] = "dir"
    /\ host.env_path = S_EnvPath /\ host.files[S_EnvPath] = "file"
    /\ tlb_path = S_CliPath

\* the order of C17 with mere existence as the test of steps 1 and 2; the
\* call raises only when steps 1 to 4 fail and the dialog cannot be opened
C17_PriorityByExistence ==
    pc = "path_done" =>
        IF tlb_path = EXC
        THEN host.dialog = "TclError" /\ C17_ByPriority(IsPresent) = PathNone
        ELSE tlb_path = C17_ByPriority(IsPresent)

\* an argument naming a missing file, and a later step answering
C17_WitnessFallThrough ==
    /\ pc = "path_done"
    /\ host.cli_arg = S_CliPath /\ host.files[S_CliPath] = "none"
    /\ host.env_path = PathNone
    /\ tlb_path = S_Femap22 \o S_SlashFemapTlb

---------------------------------------------------------------------------
(* Nested grouping of a curated enumeration *)

\* a leading underscore before a digit
DigitSafe(name) ==
    IF name # <<>> /\ IsDigit(name[1]) THEN S_Underscore \o name ELSE name

\* what follows the first underscore of a name that has one
TextAfterUnderscore(name) ==
    SubSeq(name, Len(TextBeforeUnderscore(name)) + 2, Len(name))

C18_NestedRules == {r \in 1 .. Len(ALIAS_CONFIG) : ALIAS_CONFIG[r].nested}

\* the lines of the class of a rule, up to the comment that follows it
C18_Section(rule) == SectionOf(const_lines, LineIndex(const_lines, ClassLine(rule)))

\* the member is a leaf of the nested class named by the piece before the
\* first underscore of its stripped name, which is not empty
C18_GroupedLeaf(rule, c) ==
    LET stripped == C4_StrippedName(c.name, rule.prefix)
        group == S_IndentClass \o TextBeforeUnderscore(stripped) \o S_IntEnumColon
    IN /\ TextBeforeUnderscore(stripped) # <<>>
       /\ group \in Lines(C18_Section(rule))
       /\ S_Indent8 \o DigitSafe(TextAfterUnderscore(stripped)) \o S_Eq \o IntToStr(c.value)
             \in Lines(GroupOf(C18_Section(rule), LineIndex(C18_Section(rule), group)))

\* the member is a leaf directly under the alias, after the nested classes
C18_UngroupedLeaf(rule, c) ==
    LET stripped == C4_StrippedName(c.name, rule.prefix)
        section == C18_Section(rule)
    IN \E i, j \in 1 .. Len(section) :
          /\ i < j
          /\ section[i] = S_UngroupedComment
          /\ section[j] = S_Indent4 \o stripped \o S_Eq \o IntToStr(c.value)

\* the lines of the section that declare a member
C18_MemberLines(rule) ==
    {i \in 1 .. Len(C18_Section(rule)) :
        /\ StartsWith(C18_Section(rule)[i], S_Indent4)
        /\ ~StartsWith(C18_Section(rule)[i], S_IndentClass)
        /\ C18_Section(rule)[i] # S_UngroupedComment
        /\ \E k \in 1 .. Len(C18_Section(rule)[i]) : C18_Section(rule)[i][k] = "="}

\* C18: every member of a nested rule is emitted once: under the nested
\* class named by the non-empty piece before the first underscore of its
\* stripped name, as the leaf named by the remainder, or, when the stripped
\* name has no underscore, as an ungrouped leaf directly under the alias.
C18_NestedByFirstUnderscore ==
    Generated =>
        \A r \in C18_NestedRules :
            LET rule == ALIAS_CONFIG[r]
            IN ~C10_Unmatched(rule) =>
                  /\ \A k \in 1 .. Len(RuleSelection(rule)) :
                         IF HasUnderscore(C4_StrippedName(RuleSelection(rule)[k].name,
                                                          rule.prefix))
                         THEN C18_GroupedLeaf(rule, RuleSelection(rule)[k])
                         ELSE C18_UngroupedLeaf(rule, RuleSelection(rule)[k])
                  /\ Cardinality(C18_MemberLines(rule)) = Len(RuleSelection(rule))

\* FGD_2D is stripped to _2D: the nested class it is put in has no name
C18_Witness ==
    /\ pc = "generated"
    /\ \E k \in 1 .. Len(RuleSelection(ALIAS_CONFIG[3])) :
          RuleSelection(ALIAS_CONFIG[3])[k].name = S_FGD_2D
    /\ S_IndentClass \o S_IntEnumColon \in Lines(const_lines)

\* the grouping of C18 with a secondary key that may be empty
C18_NestedAllowingEmptyKey ==
    Generated =>
        \A r \in C18_NestedRules :
            LET rule == ALIAS_CONFIG[r]
            IN ~C10_Unmatched(rule) =>
                  /\ \A k \in 1 .. Len(RuleSelection(rule)) :
                         LET c == RuleSelection(rule)[k]
                             stripped == C4_StrippedName(c.name, rule.prefix)
                         IN IF HasUnderscore(stripped)
                            THEN TextBeforeUnderscore(stripped) = <<>>
                                 \/ C18_GroupedLeaf(rule, c)
                            ELSE C18_UngroupedLeaf(rule, c)
                  /\ Cardinality(C18_MemberLines(rule)) = Len(RuleSelection(rule))

---------------------------------------------------------------------------
(* Order of the members inside a grouping *)

\* where a member line stands among the lines its grouping header opens, 0
\* when it is not there
C19_Position(section, header, line) ==
    IF header \in Lines(section)
    THEN LineIndex(GroupOf(section, LineIndex(section, header)), line)
    ELSE 0

\* members of one grouping stand by ascending value, those of one value in
\* the order of `members`, which is the order of the metadata
C19_Ordered(section, members, Header(_), Line(_)) ==
    \A i, j \in 1 .. Len(members) :
        i < j /\ Header(members[i]) = Header(members[j]) =>
            /\ C19_Position(section, Header(members[i]), Line(members[i])) > 0
            /\ C19_Position(section, Header(members[j]), Line(members[j])) > 0
            /\ members[i].value <= members[j].value
                 <=> C19_Position(section, Header(members[i]), Line(members[i]))
                       < C19_Position(section, Header(members[j]), Line(members[j]))

\* a curated flat grouping
C19_FlatRule(rule) ==
    LET Header(c) == ClassLine(rule)
        Line(c) == S_Indent4
                   \o (IF C4_StrippedName(c.name, rule.prefix) # <<>>
                       THEN C4_StrippedName(c.name, rule.prefix) ELSE c.name)
                   \o S_Eq \o IntToStr(c.value)
    IN C19_Ordered(C18_Section(rule), RuleSelection(rule), Header, Line)

\* the nested groupings and the ungrouped leaves of a curated nested rule
C19_NestedRule(rule) ==
    LET Stripped(c) == C4_StrippedName(c.name, rule.prefix)
        Header(c) == IF HasUnderscore(Stripped(c))
                     THEN S_IndentClass \o TextBeforeUnderscore(Stripped(c))
                              \o S_IntEnumColon
                     ELSE S_UngroupedComment
        Line(c) == IF HasUnderscore(Stripped(c))
                   THEN S_Indent8 \o DigitSafe(TextAfterUnderscore(Stripped(c)))
                            \o S_Eq \o IntToStr(c.value)
                   ELSE S_Indent4 \o Stripped(c) \o S_Eq \o IntToStr(c.value)
    IN C19_Ordered(C18_Section(rule), RuleSelection(rule), Header, Line)

\* an auto-generated enumeration, flat or nested by prefix
C19_Uncurated(enum) ==
    LET flat == S_Class \o enum.name \o S_IntEnumColon
        nested == S_Class \o enum.name \o S_Colon
        HeaderOfFlat(c) == flat
        LineOfFlat(c) == RawLine(S_Indent4, c)
        HeaderOfNested(c) == S_IndentClass \o TextBeforeUnderscore(c.name) \o S_IntEnumColon
        LineOfNested(c) == RawLine(S_Indent8, c)
    IN IF flat \in Lines(const_lines)
       THEN C19_Ordered(SectionOf(const_lines, LineIndex(const_lines, flat)),
                        enum.consts, HeaderOfFlat, LineOfFlat)
       ELSE C19_Ordered(SectionOf(const_lines, LineIndex(const_lines, nested)),
                        enum.consts, HeaderOfNested, LineOfNested)

\* C19: in every grouping of the document (a flat class, a nested class, the
\* ungrouped leaves) the members stand in non-decreasing order of value, and
\* members of one value stand in the order the metadata declares them.
C19_ByValueThenDeclaration ==
    Generated =>
        /\ \A r \in 1 .. Len(ALIAS_CONFIG) :
               ~C10_Unmatched(ALIAS_CONFIG[r]) =>
                   IF ALIAS_CONFIG[r].nested THEN C19_NestedRule(ALIAS_CONFIG[r])
                   ELSE C19_FlatRule(ALIAS_CONFIG[r])
        /\ \A e \in C13_Uncurated : C19_Uncurated(tlb_constants[e])

\* FGD_ELEM_B and FGD_ELEM_A share the value 1, FGD_NONE and FGD_ALL the
\* value 0: each pair is emitted in the order of the metadata
C19_Witness ==
    /\ pc = "generated"
    /\ DictHas(tlb_constants, S_zGroupDefinitionType)
    /\ DictGet(tlb_constants, S_zGroupDefinitionType).consts[1].name = S_FGD_ELEM_B
    /\ DictGet(tlb_constants, S_zGroupDefinitionType).consts[1].value
         = DictGet(tlb_constants, S_zGroupDefinitionType).consts[2].value
    /\ \E i \in 1 .. Len(const_lines) - 7 :
          /\ const_lines[i] = S_IndentClass \o <<"E", "L", "E", "M">> \o S_IntEnumColon
          /\ const_lines[i + 1] = S_Indent8 \o <<"B">> \o S_Eq \o <<"1">>
          /\ const_lines[i + 2] = S_Indent8 \o <<"A">> \o S_Eq \o <<"1">>
          /\ const_lines[i + 4] = S_UngroupedComment
          /\ const_lines[i + 5] = S_Indent4 \o <<"N", "O", "N", "E">> \o S_Eq \o <<"0">>
          /\ const_lines[i + 6] = S_Indent4 \o <<"A", "L", "L">> \o S_Eq \o <<"0">>

---------------------------------------------------------------------------
(* Failures of single members during enumeration extraction *)

\* the members of an entry that can be read and hold an int, as (name,
\* value) in declaration order
RECURSIVE C20_Readable(_)
C20_Readable(members) ==
    IF members = <<>> THEN <<>>
    ELSE C20_Readable(SubSeq(members, 1, Len(members) - 1))
         \o (IF ~members[Len(members)].fails /\ members[Len(members)].isint
             THEN <<[name |-> members[Len(members)].name,
                     value |-> members[Len(members)].value]>>
             ELSE <<>>)

C20_EnumEntries == {i \in 1 .. Len(typelib) : typelib[i].typekind = TKIND_ENUM}

\* what the constants generator extracted of an enumeration
C20_ParsedOf(enum_name) ==
    IF DictHas(tlb_constants, enum_name)
    THEN [k \in 1 .. Len(DictGet(tlb_constants, enum_name).consts) |->
             [name |-> DictGet(tlb_constants, enum_name).consts[k].name,
              value |-> DictGet(tlb_constants, enum_name).consts[k].value]]
    ELSE <<>>

\* the constants generator: a run stops in the parser only on a failure of
\* an entry, and extracts of every enumeration its readable int members
C20_ConstantsIsolated ==
    /\ pc = "load_aborted" => \E i \in 1 .. Len(typelib) : typelib[i].fails
    /\ pc = "parsed" =>
          \A i \in C20_EnumEntries :
              C20_ParsedOf(typelib[i].name) = C20_Readable(typelib[i].members)

\* the stub generator, likewise
C20_StubsIsolated ==
    /\ pc = "aborted" => \E i \in 1 .. Len(typelib) : typelib[i].fails
    /\ pc = "enums" =>
          \A i \in C20_EnumEntries :
              /\ DictHas(enums, typelib[i].name)
              /\ DictGet(enums, typelib[i].name).members
                    = C20_Readable(typelib[i].members)

\* C20: in both generators a member whose value is no int, or whose
\* descriptor or name cannot be read, is skipped, the other members of its
\* enumeration are extracted in declaration order, and no member failure
\* stops the extraction.
C20_MemberFailuresIsolated == C20_ConstantsIsolated /\ C20_StubsIsolated

\* the stub generator stopped in its first pass although every entry of
\* the library could be read: a member of an enumeration could not
C20_Witness ==
    /\ pc = "aborted"
    /\ \A i \in 1 .. Len(typelib) : ~typelib[i].fails
    /\ \E i \in C20_EnumEntries :
          /\ \E k \in 1 .. Len(typelib[i].members) : typelib[i].members[k].fails
          /\ C20_Readable(typelib[i].members) # <<>>

\* the constants generator skipped an unreadable member and one that
\* holds no int, and kept the two around them in order
C20_WitnessConstants ==
    /\ pc = "parsed"
    /\ \E i \in C20_EnumEntries :
          /\ Len(typelib[i].members) = 4
          /\ Len(C20_ParsedOf(typelib[i].name)) = 2
          /\ C20_ParsedOf(typelib[i].name)[1].name = S_FE_FAIL
          /\ C20_ParsedOf(typelib[i].name)[2].name = S_FE_OK

\* the stub generator kept a member whose value is no int
C20_WitnessNonInt ==
    /\ pc = "enums"
    /\ \E i \in C20_EnumEntries :
          /\ \E k \in 1 .. Len(typelib[i].members) : ~typelib[i].members[k].isint
          /\ Len(DictGet(enums, typelib[i].name).members) = Len(typelib[i].members)

---------------------------------------------------------------------------
(* C21 *)

\* an entry-level host call (GetTypeInfo, GetDocumentation, GetTypeAttr) of
\* the library raises
C21_EntryFails(tl) == \E i \in 1 .. Len(tl) : tl[i].fails

\* a member-level host call of an enumeration of the library raises
C21_MemberFails(tl) ==
    \E i \in 1 .. Len(tl) :
        /\ tl[i].typekind = TKIND_ENUM
        /\ \E j \in 1 .. Len(tl[i].members) : tl[i].members[j].fails

\* the entries the host answers for
C21_Available(tl) == SelectSeq(tl, LAMBDA e : ~e.fails)

\* C21: once the library is open, an entry whose host calls fail is only
\* unavailable itself: no run of either generator is aborted by it, and the
\* artifact written is the one of the remaining entries.
C21_EntryFailuresIsolated ==
    /\ pc = "load_aborted" => ~C21_EntryFails(typelib)
    /\ pc = "aborted" => C21_MemberFails(typelib)
    /\ pc = "generated" =>
          const_lines = generate_constants_file(
                            parse_constants_from_tlb(C21_Available(typelib)))
    /\ pc = "written" =>
          \E order \in ImportOrders(UsedAliases(interfaces)) :
              stub_lines = StubLines(ExtractedInterfaces(C21_Available(typelib)),
                                     CollectedEnums(C21_Available(typelib)),
                                     order)

\* the constants generator stopped on a library whose only failure is one
\* entry, with an enumeration of two readable members before it
C21_Witness ==
    /\ pc = "load_aborted"
    /\ Cardinality({i \in 1 .. Len(typelib) : typelib[i].fails}) = 1
    /\ ~C21_MemberFails(typelib)
    /\ \E i \in 1 .. Len(typelib) :
          /\ typelib[i].typekind = TKIND_ENUM
          /\ Len(typelib[i].members) >= 2
    /\ const_lines = <<>>

\* the stub generator stopped in its first pass on a library whose only
\* failure is one entry, with an enumeration and an interface beside it
C21_WitnessStubs ==
    /\ pc = "aborted"
    /\ Cardinality({i \in 1 .. Len(typelib) : typelib[i].fails}) = 1
    /\ ~C21_MemberFails(typelib)
    /\ \E i \in 1 .. Len(typelib) : typelib[i].typekind = TKIND_DISPATCH
    /\ stub_lines = <<>>

---------------------------------------------------------------------------
(* C22 *)

\* the interface holds exactly one getter and one setter named name
C22_OnePair(name) ==
    Cardinality(Getters(name)) = 1 /\ Cardinality(Setters(name)) = 1

C22_Getter(name) == TheEntry.funcs[CHOOSE g \in Getters(name) : TRUE]
C22_Setter(name) == TheEntry.funcs[CHOOSE s \in Setters(name) : TRUE]

\* the entry with the positions of the getter and the setter exchanged
C22_OtherOrder(name) ==
    LET g == CHOOSE k \in Getters(name) : TRUE
        s == CHOOSE k \in Setters(name) : TRUE
    IN [TheEntry EXCEPT !.funcs =
           [k \in 1 .. Len(TheEntry.funcs) |->
               IF k = g THEN TheEntry.funcs[s]
               ELSE IF k = s THEN TheEntry.funcs[g]
               ELSE TheEntry.funcs[k]]]

\* both halves are those of a simple property: a getter without parameters
\* and a setter with at most the value
C22_SimplePair(name) ==
    /\ C22_OnePair(name)
    /\ Len(C22_Getter(name).args) = 0
    /\ Len(C22_Setter(name).args) <= 1

\* both halves are those of an indexed property
C22_IndexedPair(name) ==
    /\ C22_OnePair(name)
    /\ Len(C22_Getter(name).args) >= 1
    /\ Len(C22_Setter(name).args) >= 2

\* a setter of a simple property with no getter of that name
C22_SetterAlone(name) ==
    /\ Getters(name) = {}
    /\ Cardinality(Setters(name)) = 1
    /\ Len(C22_Setter(name).args) <= 1

\* the type get_elemdesc_type gives the last parameter of the setter
C22_SetterType(name) ==
    LET f == C22_Setter(name)
    IN IF f.args = <<>> THEN S_Any
       ELSE get_elemdesc_type(TheEntry.tinfo, f.args[Len(f.args)]).type

C22_GetterType(name) == resolve_type(TheEntry.tinfo, C22_Getter(name).rettype)

C22_WitnessIndexed ==
    /\ pc = "interfaces"
    /\ C22_IndexedPair(S_Item)
    /\ \E g \in Getters(S_Item), s \in Setters(S_Item) : s < g
    /\ C22_GetterType(S_Item) # S_Any
    /\ Cardinality(MethodsNamed(S_Item)) = 1
    /\ Cardinality(MethodsNamed(S_SetItem)) = 1

---------------------------------------------------------------------------
(* C23 *)

\* the rules of the table that name the enumeration, when there are several
C23_Sharing(enum_name) ==
    LET rules == {r \in 1 .. Len(ALIAS_CONFIG) : RuleEnum(ALIAS_CONFIG[r]) = enum_name}
    IN IF Cardinality(rules) >= 2 THEN rules ELSE {}

\* the filter prefix of a virtual rule: the text after the ':' of its key
C23_FilterPrefix(rule) ==
    SubSeq(rule.key, Len(RuleEnum(rule)) + 2, Len(rule.key))

\* the line by which the flat grouping of the rule declares the member
C23_MemberLine(rule, c) ==
    S_Indent4
    \o (IF C4_StrippedName(c.name, rule.prefix) # <<>>
        THEN C4_StrippedName(c.name, rule.prefix) ELSE c.name)
    \o S_Eq \o IntToStr(c.value)

\* the grouping of the rule is in the document and declares the member
C23_EmittedIn(rule, c) ==
    /\ ClassLine(rule) \in Lines(const_lines)
    /\ C23_MemberLine(rule, c) \in Lines(C18_Section(rule))

C23_Members(enum_name) ==
    IF DictHas(tlb_constants, enum_name)
    THEN {DictGet(tlb_constants, enum_name).consts[i] :
             i \in 1 .. Len(DictGet(tlb_constants, enum_name).consts)}
    ELSE {}

\* the grouping of a filter-prefix rule holds exactly the members whose raw
\* name starts with the filter prefix
C23_FilterExact ==
    Generated =>
        \A r \in 1 .. Len(ALIAS_CONFIG) :
            RuleIsVirtual(ALIAS_CONFIG[r]) =>
                /\ \A c \in C23_Members(RuleEnum(ALIAS_CONFIG[r])) :
                      C23_EmittedIn(ALIAS_CONFIG[r], c)
                          <=> StartsWith(c.name, C23_FilterPrefix(ALIAS_CONFIG[r]))
                /\ ClassLine(ALIAS_CONFIG[r]) \in Lines(const_lines) =>
                      Cardinality(C18_MemberLines(ALIAS_CONFIG[r]))
                          = Len(RuleSelection(ALIAS_CONFIG[r]))

\* C23: the groupings of the rules that share one source enumeration
\* partition its members: the grouping of a filter-prefix rule holds exactly
\* the members whose raw name starts with its filter prefix, and every member
\* is emitted in exactly one grouping of those rules.
C23_RulesPartition ==
    /\ C23_FilterExact
    /\ Generated =>
          \A r \in 1 .. Len(ALIAS_CONFIG) :
              \A c \in C23_Members(RuleEnum(ALIAS_CONFIG[r])) :
                  C23_Sharing(RuleEnum(ALIAS_CONFIG[r])) # {} =>
                      Cardinality({q \in C23_Sharing(RuleEnum(ALIAS_CONFIG[r])) :
                                      C23_EmittedIn(ALIAS_CONFIG[q], c)}) = 1

\* zColor holds FCL_A and FPF_B; FPF_B is declared in the grouping of the
\* primary rule under its raw name and in BrushPattern as B
C23_Witness ==
    /\ pc = "generated"
    /\ DictHas(tlb_constants, S_zColor)
    /\ \E c, d \in C23_Members(S_zColor) :
          /\ c.name = S_FCL_A
          /\ d.name = S_FPF_B
          /\ C23_EmittedIn(ALIAS_CONFIG[4], d)
          /\ C23_EmittedIn(ALIAS_CONFIG[5], d)
          /\ C23_EmittedIn(ALIAS_CONFIG[4], c)
          /\ ~C23_EmittedIn(ALIAS_CONFIG[5], c)

---------------------------------------------------------------------------
(* C24 *)

\* the cache file as the call found it
C24_CacheBefore == IF pc = "path_again" THEN earlier.cache_file ELSE host.cache

\* the path the cache file held when the call started, <<>> when none
C24_CachedBefore ==
    IF C24_CacheBefore.state = "text" THEN StripWhitespace(C24_CacheBefore.text)
    ELSE <<>>

\* the call returned a path picked in the file dialog
C24_ChoseInDialog ==
    prompted /\ host.dialog = "pick" /\ tlb_path = S_NewPath

\* the run before picked a path in the dialog and the cache file it left
\* holds that path
C24_SavedBefore ==
    /\ pc = "path_again"
    /\ earlier.prompted
    /\ C17_Named(earlier.tlb_path)
    /\ earlier.tlb_path # EXC
    /\ earlier.cache_file = CacheText(earlier.tlb_path)

\* neither the argument nor FEMAP_TLB_PATH of the call names something
\* that exists
C24_NoValidOverride ==
    /\ ~(C17_Named(host.cli_arg) /\ IsPresent(host.cli_arg))
    /\ ~(C17_Named(host.env_path) /\ IsPresent(host.env_path))

\* C24: the cache file is written only by a call that returns a path chosen
\* in the file dialog; once such a choice is saved, a later call without a
\* valid argument and a valid FEMAP_TLB_PATH returns the cached path without
\* prompting while its file exists; a cached path whose file is gone is never
\* returned.
C24_CacheAcrossRuns ==
    pc \in {"path_done", "path_again"} =>
        /\ cache_file # C24_CacheBefore =>
              C24_ChoseInDialog /\ cache_file = CacheText(tlb_path)
        /\ C24_SavedBefore /\ C24_NoValidOverride /\ IsPresent(earlier.tlb_path) =>
              /\ tlb_path = earlier.tlb_path
              /\ ~prompted
              /\ cache_file = earlier.cache_file
        /\ C24_CachedBefore # <<>> /\ ~IsPresent(C24_CachedBefore) =>
              tlb_path # C24_CachedBefore

\* the first run found nothing and saved the path picked in the dialog; the
\* later run, given an argument that names a missing file, returned the
\* cached path without prompting
C24_Witness ==
    /\ C24_SavedBefore
    /\ host.cache # earlier.cache_file
    /\ host.cli_arg = S_CliPath
    /\ ~IsPresent(S_CliPath)
    /\ C24_NoValidOverride
    /\ IsPresent(earlier.tlb_path)
    /\ tlb_path = S_NewPath
    /\ ~prompted

\* the file of the saved path was removed before the later run, which
\* prompted again
C24_WitnessRemoved ==
    /\ C24_SavedBefore
    /\ ~IsPresent(earlier.tlb_path)
    /\ C24_NoValidOverride
    /\ prompted
    /\ tlb_path # earlier.tlb_path

\* a run resolved by auto-detection left the cache file as it was
C24_WitnessNotWritten ==
    /\ pc = "path_done"
    /\ ~prompted
    /\ C17_InstallDir # <<>>
    /\ tlb_path = C17_InstallDir \o S_SlashFemapTlb
    /\ cache_file = host.cache
    /\ host.cache = NoCacheFile

---------------------------------------------------------------------------
(* C25 *)

\* how often the key of the rule stands in each of the two lists
C25_TimesProcessed(rule) ==
    Cardinality({i \in 1 .. Len(tier1_processed) : tier1_processed[i][1] = rule.key})

C25_TimesSkipped(rule) ==
    Cardinality({i \in 1 .. Len(tier1_skipped) : tier1_skipped[i] = rule.key})

\* the number of member declarations in the grouping of the rule
C25_MembersIn(rule) ==
    LET section == C18_Section(rule)
    IN Cardinality({i \in 1 .. Len(section) :
                       /\ StartsWith(section[i], S_Indent4)
                       /\ ~StartsWith(section[i], S_IndentClass)
                       /\ section[i] # S_UngroupedComment
                       /\ \E k \in 1 .. Len(section[i]) : section[i][k] = "="})

\* the member declarations in the groupings of the processed rules among the
\* first n rules of the table
RECURSIVE C25_EmittedMembers(_)
C25_EmittedMembers(n) ==
    IF n = 0 THEN 0
    ELSE C25_EmittedMembers(n - 1)
         + (IF C25_TimesProcessed(ALIAS_CONFIG[n]) = 1
            THEN C25_MembersIn(ALIAS_CONFIG[n]) ELSE 0)

\* the Tier 1 line of the summary
C25_Tier1Line(groupings, members) ==
    S_Tier1Open \o IntToStr(groupings) \o S_EnumsComma
        \o IntToStr(members) \o S_ConstantsClose

\* C25: after generate_constants_file has gone through the table, every rule
\* stands in exactly one of the lists 'processed' and 'skipped', a grouping
\* is emitted for a rule exactly if it is processed, and the Tier 1 constant
\* count of the summary is the number of members emitted in the groupings of
\* the processed rules.
C25_SummaryAccounting ==
    pc = "generated" =>
        /\ \A r \in 1 .. Len(ALIAS_CONFIG) :
              /\ C25_TimesProcessed(ALIAS_CONFIG[r]) + C25_TimesSkipped(ALIAS_CONFIG[r]) = 1
              /\ ClassLine(ALIAS_CONFIG[r]) \in Lines(const_lines)
                    <=> C25_TimesProcessed(ALIAS_CONFIG[r]) = 1
              /\ C25_TimesProcessed(ALIAS_CONFIG[r]) = 1 =>
                    \E i \in 1 .. Len(tier1_processed) :
                        /\ tier1_processed[i][1] = ALIAS_CONFIG[r].key
                        /\ tier1_processed[i][3]
                              = C25_MembersIn(ALIAS_CONFIG[r])
        /\ Len(tier1_processed) + Len(tier1_skipped) = Len(ALIAS_CONFIG)
        /\ C25_Tier1Line(Len(tier1_processed), C25_EmittedMembers(Len(ALIAS_CONFIG)))
              \in Lines(const_lines)

\* some rules are processed and some skipped, a filter-prefix rule among the
\* processed ones, and the nested rule has emitted grouped members
C25_Witness ==
    /\ pc = "generated"
    /\ Len(tier1_skipped) >= 2
    /\ C25_TimesProcessed(ALIAS_CONFIG[3]) = 1
    /\ C25_MembersIn(ALIAS_CONFIG[3]) >= 3
    /\ C25_TimesProcessed(ALIAS_CONFIG[4]) = 1
    /\ C25_TimesProcessed(ALIAS_CONFIG[5]) = 1
    /\ C25_MembersIn(ALIAS_CONFIG[4]) = 3
    /\ C25_MembersIn(ALIAS_CONFIG[5]) = 1
    /\ C25_EmittedMembers(Len(ALIAS_CONFIG)) >= 7

====
